---- MODULE Spec2Model ----
(***************************************************************************)
(* Model of the measurement-and-telemetry engine of backend/app/main.py:   *)
(* the streaming sessions (ws_ping/_stream_ping, ws_traceroute/            *)
(* _stream_traceroute), the window tracker (summarize_window) and the      *)
(* history store (models.save_to_csv).                                     *)
(*                                                                         *)
(* Conventions.  A Python Optional is a sequence of length <= 1: None is   *)
(* <<>> and a present value x is <<x>>.  RTTs are the integers the regex   *)
(* PING_RTT captures (float(int) carries no fraction).  Jitter and loss    *)
(* values are exact integers wherever the code produces them.              *)
(***************************************************************************)
EXTENDS Integers, Sequences, FiniteSets, TLC

VARIABLES
    mode,         \* "none" | "latency" | "path": which websocket endpoint runs
    st,           \* spec state: Handshake, AwaitingStart, Sampling, Closed
    pc,           \* position of the handler's coroutine (its current await)
    connected,    \* FALSE once the client is gone: every later send raises
    host,         \* Optional: host taken from the start message
    interval_ms,  \* interval argument of _stream_ping
    window,       \* _stream_ping: window
    idx,          \* _stream_ping: idx
    error_count,  \* _stream_ping: error_count
    rtt,          \* _stream_ping: rtt of the current iteration (Optional)
    hops,         \* _stream_traceroute: hops
    linesRead,    \* _stream_traceroute: number of lines read from the pipe
    frames,       \* every frame the client received, in order
    files,        \* models.CSV_FILES contents: tool -> sequence of file lines
    proc,         \* "none" | "running": the probe subprocess of this session
    launched,     \* number of probe subprocesses launched so far
    outcomes,     \* history: result of every completed probe, in order
    cooldowns,    \* history: the idx of every iteration that took the 5 s cooldown
    closedBy,     \* why the session ended ("" while it runs)
    escaped,      \* TRUE when an exception left the endpoint coroutine
    clock,        \* wall clock, advanced by the time-consuming awaits
    msg,          \* Optional: the start message the session received
    tool_ok,      \* FALSE when the external tool is not installed: every
                  \* create_subprocess_exec raises FileNotFoundError
    cmd_out,      \* Optional: what run_cmd returned to a one-shot endpoint
    timed_out,    \* TRUE once asyncio.wait_for gave up on a one-shot probe
    served,       \* number of one-shot requests answered so far
    appended,     \* per store, the (payload, timestamp) of every save_to_csv
                  \* call completed in the history-store specification
    inbox,        \* client messages that arrived after the start message and
                  \* that no receive call has taken, in order of arrival
    sessions,     \* the local variables and the frames of each of several
                  \* sessions that run at once (concurrent-session specification)
    arg,          \* input of the pure function under check (function specs)
    res           \* its result (function specs)

vars == <<mode, st, pc, connected, host, interval_ms, window, idx, error_count,
          rtt, hops, linesRead, frames, files, proc, launched, outcomes,
          cooldowns, closedBy, escaped, clock, msg, tool_ok, cmd_out,
          timed_out, served, appended, inbox, sessions, arg, res>>

\* groups used in UNCHANGED clauses
ctlVars == <<st, pc, closedBy, escaped>>
startVars == <<host, interval_ms, msg>>
pingVars == <<window, idx, error_count, rtt, outcomes, cooldowns>>
pathVars == <<hops, linesRead>>
procVars == <<proc, launched>>
fnVars == <<arg, res>>
shotVars == <<tool_ok, cmd_out, timed_out, served>>
storeVars == <<appended>>

-----------------------------------------------------------------------------
(* Bounds of the model *)

\* probes one latency session completes before the model stops launching
MaxProbes == 33
\* output lines one path probe produces at most
MaxLines == 3
\* longest window handed to summarize_window in the function specification
MaxWin == 4
\* one-shot requests answered in one behaviour
MaxRequests == 2
\* save_to_csv calls in one behaviour of the history-store specification
MaxAppends == 3
\* fields of a text handed to parse_ping_rtt_ms in its function
\* specification
MaxTextFields == 2
\* fields after the first token of a line handed to the hop-line parser in
\* its function specification
MaxHopFields == 4
\* probes each latency session completes in the concurrent-session
\* specification
MaxSessionProbes == 3
\* probes a latency session completes, and messages its client sends after
\* the start message, in the specification of clients that keep sending
MaxChattyProbes == 3
MaxLater == 2
\* intervals of a document handed to parse_iperf3_json in the function
\* specification of its choice of summaries
MaxIntervals == 2

(* Program constants *)

\* main.py:237  if len(window) > 20
WINDOW_SIZE == 20
\* main.py:290  if error_count >= 30
ERROR_THRESHOLD == 30
\* main.py:94   msg.get("interval", 1) seconds, times 1000
DEFAULT_INTERVAL_MS == 1000

\* RTT values a ping reply can carry in the model
RTTS == {10, 20}
\* window values of the function specification ([10, 20, 15] is among them)
WIN_RTTS == {10, 15, 20}
\* hosts a start message can name
HOSTS == {"h1"}

None == <<>>
Some(x) == <<x>>
IsNone(o) == o = <<>>
Val(o) == o[1]

Abs(x) == IF x < 0 THEN -x ELSE x

-----------------------------------------------------------------------------
(* Output parser and window tracker *)

\* A text handed to parse_ping_rtt_ms is the sequence of its key/value
\* fields (bytes=32, time=37ms, TTL=64, ...), whatever else stands between
\* them: the key as written, the digits after it if any, and what follows
\* the digits.
TIME_KEYS == {"time=", "time<", "TIME="}
MS_UNITS == {"ms", "MS", " ms"}
FIELD_KEYS == TIME_KEYS \cup {"TTL="}
FIELD_NUMS == {None, Some(1), Some(37)}
FIELD_UNITS == MS_UNITS \cup {"", ".5ms"}
FIELDS == [key : FIELD_KEYS, num : FIELD_NUMS, unit : FIELD_UNITS]

\* the reply line of a probe answered in r ms, and a text without any field
\* (timed out, unreachable, the str(e) of a launch failure)
ReplyText(r) == <<[key |-> "time=", num |-> Some(r), unit |-> "ms"]>>
LostText == <<>>

\* The output of one `ping -n 1` run as run_cmd returns it
PING_OUTPUTS == {ReplyText(r) : r \in RTTS} \cup {LostText}

\* main.py:55  re.compile(r"time[=<]\s*(\d+)\s*ms", re.IGNORECASE) matching
\* at one field
PING_RTT(f) ==
    f.key \in TIME_KEYS /\ ~IsNone(f.num) /\ f.unit \in MS_UNITS

\* parse_ping_rtt_ms reading the last match instead of the first
parse_ping_rtt_ms_Last(output) ==
    LET ms == { i \in 1..Len(output) : PING_RTT(output[i]) }
    IN  IF ms = {} THEN None
        ELSE output[CHOOSE m \in ms : \A x \in ms : m >= x].num

\* main.py:57-60  m = PING_RTT.search(output): the first match;
\* float(m.group(1)) if m else None
parse_ping_rtt_ms(output) ==
    LET ms == { i \in 1..Len(output) : PING_RTT(output[i]) }
    IN  IF ms = {} THEN None
        ELSE output[CHOOSE m \in ms : \A x \in ms : m <= x].num

\* main.py:9  `import statistics as stdev` binds the name stdev to the MODULE
\* statistics; the call stdev(deltas) at line 70 therefore raises
\* TypeError("'module' object is not callable") for every argument.
stdev(deltas) == [raised |-> TRUE, error |-> "TypeError"]

\* main.py:69  [abs(samples[i] - samples[i-1]) for i in range(1, len(samples))]
Deltas(samples) ==
    [i \in 1..(Len(samples) - 1) |-> Abs(samples[i + 1] - samples[i])]

\* summarize_window with its first two branches merged: a one-element
\* window reported like an empty one
summarize_window_ShortIsEmpty(samples) ==
    IF Len(samples) < 2
    THEN [raised |-> FALSE, jitter_ms |-> 0, loss_pct |-> 100]
    ELSE LET deltas == Deltas(samples)
         IN  IF Len(deltas) > 1
             THEN stdev(deltas)
             ELSE [raised |-> FALSE, jitter_ms |-> deltas[1], loss_pct |-> 0]

\* main.py:62-71.  The result is [raised |-> FALSE, jitter_ms, loss_pct] or
\* the exception the call raises.
summarize_window(samples) ==
    IF Len(samples) = 0
    THEN [raised |-> FALSE, jitter_ms |-> 0, loss_pct |-> 100]
    ELSE IF Len(samples) < 2
    THEN [raised |-> FALSE, jitter_ms |-> 0, loss_pct |-> 0]
    ELSE LET deltas == Deltas(samples)
         IN  IF Len(deltas) > 1
             THEN stdev(deltas)
             ELSE [raised |-> FALSE,
                   jitter_ms |-> IF Len(deltas) > 0 THEN deltas[1] ELSE 0,
                   loss_pct |-> 0]

\* WindowPush inserting at the front: window.insert(0, rtt)
WindowPush_Front(w, r) ==
    LET w2 == <<r>> \o w
    IN  IF Len(w2) > WINDOW_SIZE THEN Tail(w2) ELSE w2

\* main.py:236-238  window.append(rtt); if len(window) > 20: window.pop(0)
WindowPush(w, r) ==
    LET w2 == Append(w, r)
    IN  IF Len(w2) > WINDOW_SIZE THEN Tail(w2) ELSE w2

\* NextWindow recording a lost probe as 0: window.append(rtt or 0.0)
NextWindow_PushesLost(w, r) ==
    IF IsNone(r) THEN Append(w, 0) ELSE Append(w, Val(r))

\* main.py:235-238, 261-264: the window after a probe whose parsed RTT is r;
\* the else branch of a lost probe does not touch it
NextWindow(w, r) == IF IsNone(r) THEN w ELSE WindowPush(w, Val(r))

-----------------------------------------------------------------------------
(* History store *)

TOOLS == {"ping", "traceroute", "iperf"}

\* save_to_csv writing the header on every call
save_to_csv_HeaderEachTime(fs, tool, data, ts) ==
    [fs EXCEPT ![tool] =
        fs[tool] \o <<[header |-> TRUE], [timestamp |-> ts, data |-> data]>>]

\* models.py:96-119.  A file is the sequence of its lines; a missing file is
\* the empty sequence.  The header is written when the file does not exist.
save_to_csv(fs, tool, data, ts) ==
    LET row == [timestamp |-> ts, data |-> data]
        old == fs[tool]
    IN  [fs EXCEPT ![tool] =
            IF old = <<>> THEN <<[header |-> TRUE], row>> ELSE Append(old, row)]

\* the data rows of a store file
Rows(fs, tool) == SelectSeq(fs[tool], LAMBDA l : "data" \in DOMAIN l)

-----------------------------------------------------------------------------
(* Path-hop line parser of _stream_traceroute (main.py:172-197).  A line   *)
(* is the sequence of its whitespace-separated tokens (text.split()); the  *)
(* empty sequence is an empty line.                                        *)

\* integer value of a token made of digits only
DIGIT_TOKENS ==
    [t \in {"1", "2", "3", "5", "12", "15"} |->
        CASE t = "1" -> 1 [] t = "2" -> 2 [] t = "3" -> 3 [] t = "5" -> 5
          [] t = "12" -> 12 [] t = "15" -> 15]
\* tokens '<' digits
LT_TOKENS == [t \in {"<1"} |-> 1]
\* tokens shaped like a dotted quad
IP_TOKENS == {"10.0.0.1", "10.0.0.2"}
\* tokens whose first character is a digit
DIGIT_START == DOMAIN DIGIT_TOKENS \cup IP_TOKENS \cup {"1x"}

\* output lines tracert can produce in the model
TRACE_LINES ==
    { <<>>,
      <<"Tracing", "route", "to", "h1">>,
      <<"1", "<1", "ms", "5", "ms", "10.0.0.1">>,
      <<"2", "12", "ms", "15", "ms", "10.0.0.2">>,
      <<"3", "*", "*", "Request", "timed", "out.">>,
      <<"1x", "5", "ms", "10.0.0.1">> }

\* main.py:173  text and text[0].isdigit()
Qualifies(text) == Len(text) > 0 /\ text[1] \in DIGIT_START

\* main.py:176  int(text.split()[0]); None stands for the ValueError
HopNum(text) ==
    IF text[1] \in DOMAIN DIGIT_TOKENS THEN Some(DIGIT_TOKENS[text[1]]) ELSE None

\* main.py:181-189  re.findall(r"<?\d+(?:\.\d+)?\s*ms", text), '<' and 'ms'
\* stripped: a number token directly followed by the token ms
RttReadings(text) ==
    { (IF text[i] \in DOMAIN LT_TOKENS THEN LT_TOKENS[text[i]] ELSE DIGIT_TOKENS[text[i]]) :
        i \in { j \in 1..(Len(text) - 1) :
                  /\ text[j] \in DOMAIN DIGIT_TOKENS \cup DOMAIN LT_TOKENS
                  /\ text[j + 1] = "ms" } }

\* the hop's RTT taken as the largest reading
MinRtt_TakesMax(text) ==
    LET rs == RttReadings(text)
    IN  IF rs = {} THEN None ELSE Some(CHOOSE m \in rs : \A x \in rs : m >= x)

\* main.py:195  min(rtts) if rtts else None
MinRtt(text) ==
    LET rs == RttReadings(text)
    IN  IF rs = {} THEN None ELSE Some(CHOOSE m \in rs : \A x \in rs : m <= x)

\* main.py:192-193  last dotted-quad token, else '*'
LastIp(text) ==
    LET is == { i \in 1..Len(text) : text[i] \in IP_TOKENS }
    IN  IF is = {} THEN "*" ELSE text[CHOOSE m \in is : \A x \in is : m >= x]

\* main.py:196  hop = {"hop": hop_num, "ip": ip, "rtt_ms": rtt}
ParseHop(text) ==
    [hop |-> Val(HopNum(text)), ip |-> LastIp(text), rtt_ms |-> MinRtt(text)]

-----------------------------------------------------------------------------
(* Streaming sessions *)

\* interval field of a start message: absent, not a number, or a number
\* given by its value in milliseconds (float(x) * 1000)
INTERVALS ==
    {[kind |-> "absent"], [kind |-> "bad"], [kind |-> "num", ms |-> 0]}

\* what websocket.receive_text() can deliver as the first client message
START_MSGS ==
    {[json |-> FALSE], [json |-> TRUE, obj |-> FALSE]}
    \cup {[json |-> TRUE, obj |-> TRUE, host |-> h, interval |-> i] :
            h \in {None, Some("")} \cup {Some(x) : x \in HOSTS}, i \in INTERVALS}

\* a start message that is not valid JSON, or that names no host
Malformed(m) ==
    \/ ~m.json
    \/ ~m.obj
    \/ IsNone(m.host) \/ m.host = Some("")

\* main.py:94  int(float(msg.get("interval", 1)) * 1000)
IntervalMs(i) == IF i.kind = "absent" THEN DEFAULT_INTERVAL_MS ELSE i.ms

InfoFrame == [type |-> "info", message |-> "ws connected"]
ErrorFrame(text) == [type |-> "error", error |-> text]

Idle ==
    /\ host = None /\ interval_ms = 0 /\ msg = None
    /\ window = <<>> /\ idx = 0 /\ error_count = 0 /\ rtt = None
    /\ hops = <<>> /\ linesRead = 0
    /\ frames = <<>>
    /\ files = [t \in TOOLS |-> <<>>]
    /\ proc = "none" /\ launched = 0
    /\ outcomes = <<>> /\ cooldowns = <<>>
    /\ closedBy = "" /\ escaped = FALSE
    /\ clock = 0
    /\ cmd_out = None /\ timed_out = FALSE /\ served = 0
    /\ appended = [t \in TOOLS |-> <<>>]
    /\ sessions = <<>> /\ inbox = <<>>

\* websocket.accept() has returned (main.py:77, 118)
Init ==
    /\ mode \in {"latency", "path"}
    /\ tool_ok \in BOOLEAN
    /\ st = "Handshake" /\ pc = "send_info" /\ connected = TRUE
    /\ Idle
    /\ arg = <<>> /\ res = None

\* the session ends: the endpoint coroutine returns (or raises)
Close(why, esc) ==
    /\ st' = "Closed" /\ pc' = "done" /\ closedBy' = why /\ escaped' = esc

\* the client goes away; from then on every send raises
ClientGone ==
    /\ st # "Closed" /\ connected
    /\ connected' = FALSE
    /\ UNCHANGED <<mode, inbox, sessions, storeVars, shotVars, ctlVars, startVars, pingVars, pathVars, procVars,
                   frames, files, clock, fnVars>>

\* main.py:85-88, 124-127: the handshake ack, a failed send is ignored
HandshakeInfo ==
    /\ pc = "send_info"
    /\ frames' = IF connected THEN Append(frames, InfoFrame) ELSE frames
    /\ st' = "AwaitingStart" /\ pc' = "receive"
    /\ UNCHANGED <<mode, inbox, sessions, storeVars, shotVars, connected, closedBy, escaped, startVars, pingVars,
                   pathVars, procVars, files, clock, fnVars>>

\* main.py:92 / 130: receive_text() raises WebSocketDisconnect; 104-105, 138-139
DisconnectBeforeStart ==
    /\ pc = "receive" /\ ~connected
    /\ Close("disconnect", FALSE)
    /\ UNCHANGED <<mode, inbox, sessions, storeVars, shotVars, connected, startVars, pingVars, pathVars, procVars,
                   frames, files, clock, fnVars>>

\* StartTarget without the `if not host` check
StartTarget_NoHostCheck(m) ==
    IF ~m.json THEN "err_invalid_json"
    ELSE IF ~m.obj THEN "err_exception"
    ELSE IF mode = "latency" /\ m.interval.kind = "bad" THEN "err_exception"
    ELSE IF mode = "latency" THEN "probe_wait" ELSE "read_line"

\* main.py:92-102 (ws_ping) and 130-136 (ws_traceroute): the start message is
\* received and decoded.  The outcome is the next position of the coroutine:
\* an except clause that sends one error frame, or the streaming loop, whose
\* first statement launches the probe subprocess.
StartTarget(m) ==
    IF ~m.json THEN "err_invalid_json"              \* json.JSONDecodeError
    ELSE IF ~m.obj THEN "err_exception"             \* msg.get: AttributeError
    ELSE IF mode = "latency" /\ m.interval.kind = "bad"
         THEN "err_exception"                        \* float(): ValueError
    ELSE IF IsNone(m.host) \/ m.host = Some("")
         THEN "err_host_required"                    \* if not host
    ELSE IF mode = "latency" THEN "probe_wait" ELSE "read_line"

\* With the tool missing the launch raises FileNotFoundError: run_cmd
\* (main.py:51-52) turns it into its return value, so _stream_ping waits for
\* nothing and sees a lost probe; _stream_traceroute (main.py:154, 218) goes
\* to its `except Exception`.
ReceiveStart(m) ==
    /\ pc = "receive" /\ connected
    /\ msg' = Some(m)
    /\ LET t == StartTarget(m)
           streams == t \in {"probe_wait", "read_line"}
       IN  /\ pc' = IF t = "read_line" /\ ~tool_ok THEN "err_exception" ELSE t
           /\ st' = IF streams THEN "Sampling" ELSE st
           /\ host' = IF m.json /\ m.obj THEN m.host ELSE host
           /\ interval_ms' = IF streams /\ mode = "latency"
                             THEN IntervalMs(m.interval) ELSE interval_ms
           /\ proc' = IF streams /\ tool_ok THEN "running" ELSE proc
           /\ launched' = IF streams /\ tool_ok THEN launched + 1 ELSE launched
    /\ UNCHANGED <<mode, inbox, sessions, storeVars, shotVars, connected, closedBy, escaped, pingVars, pathVars,
                   frames, files, clock, fnVars>>

\* The except clauses that end a session with one error frame:
\*   err_invalid_json   main.py:106-107 / 140-141, the send is not guarded
\*   err_host_required  main.py:97-99 / 132-134; a failed send lands in
\*                      `except Exception`, whose own send fails too
\*   err_exception      main.py:108-112 / 142-146 / 218-222 / 302-306
FinalErrorText ==
    CASE pc = "err_invalid_json" -> "Invalid JSON message"
      [] pc = "err_host_required" -> "Host is required"
      [] OTHER -> "exception"

FinalError ==
    /\ pc \in {"err_invalid_json", "err_host_required", "err_exception"}
    /\ frames' = IF connected THEN Append(frames, ErrorFrame(FinalErrorText))
                 ELSE frames
    /\ Close(FinalErrorText, pc = "err_invalid_json" /\ ~connected)
    /\ UNCHANGED <<mode, inbox, sessions, storeVars, shotVars, connected, startVars, pingVars, pathVars, procVars,
                   files, clock, fnVars>>

-----------------------------------------------------------------------------
(* _stream_ping (main.py:224-306) *)

\* main.py:241-248 / 267-274: the sample frame of the current iteration
SampleFrame ==
    LET summary == summarize_window(window)
    IN  [type |-> "sample", ts |-> clock, sample_index |-> idx, rtt_ms |-> rtt,
         jitter_ms_window |-> summary.jitter_ms,
         loss_pct_window |->
            IF IsNone(rtt) /\ window = <<>> THEN 100 ELSE summary.loss_pct]

\* PingErrorFrame built after idx += 1
PingErrorFrame_NextIndex ==
    [type |-> "error", error |-> "Ping failed", sample_index |-> idx + 1]

\* main.py:280-284
PingErrorFrame ==
    [type |-> "error", error |-> "Ping failed", sample_index |-> idx]

\* PingData built after idx += 1
PingData_NextIndex ==
    LET summary == summarize_window(window)
    IN  [target |-> Val(host), rtt_ms |-> Val(rtt),
         loss_pct_window |-> summary.loss_pct,
         jitter_ms_window |-> summary.jitter_ms, sample_index |-> idx + 1]

\* main.py:252-258
PingData ==
    LET summary == summarize_window(window)
    IN  [target |-> Val(host), rtt_ms |-> Val(rtt),
         loss_pct_window |-> summary.loss_pct,
         jitter_ms_window |-> summary.jitter_ms, sample_index |-> idx]

\* main.py:232-239 / 261-264: run_cmd returns, the output is parsed, the
\* window is updated and summarized.  An exception of summarize_window
\* leaves the loop for `except Exception` (main.py:302).
PingReturn(out) ==
    /\ mode = "latency" /\ pc = "probe_wait"
    /\ tool_ok \/ out = LostText
    /\ LET r == parse_ping_rtt_ms(out)
           w == NextWindow(window, r)
       IN  /\ rtt' = r
           /\ window' = w
           /\ error_count' = IF IsNone(r) THEN error_count + 1 ELSE error_count
           /\ outcomes' = Append(outcomes, r)
           /\ pc' = IF summarize_window(w).raised THEN "err_exception"
                    ELSE "send_sample"
    /\ proc' = "none"
    /\ clock' = clock + 1
    /\ UNCHANGED <<mode, inbox, sessions, storeVars, shotVars, st, closedBy, escaped, connected, startVars, idx,
                   cooldowns, pathVars, launched, frames, files, fnVars>>

\* SendSample without `error_count = 0` after a success
SendSample_NoReset ==
    /\ pc = "send_sample"
    /\ IF ~connected
       THEN /\ Close("send_failed", FALSE)
            /\ UNCHANGED <<frames, files, idx>>
       ELSE /\ frames' = Append(frames, SampleFrame)
            /\ UNCHANGED <<st, closedBy, escaped>>
            /\ IF IsNone(rtt)
               THEN /\ pc' = "send_error"
                    /\ UNCHANGED <<files, idx>>
               ELSE /\ files' = save_to_csv(files, "ping", PingData, clock)
                    /\ idx' = idx + 1
                    /\ pc' = "sleep"
    /\ UNCHANGED <<mode, inbox, sessions, storeVars, shotVars, connected, startVars, window, rtt, outcomes, cooldowns,
                   pathVars, procVars, clock, fnVars, error_count>>

\* main.py:240-260 (success) and 266-276 (loss): the sample frame is sent; a
\* failed send returns.  After a success the record is saved, the failure
\* counter reset and the index advanced.
SendSample ==
    /\ pc = "send_sample"
    /\ IF ~connected
       THEN /\ Close("send_failed", FALSE)
            /\ UNCHANGED <<frames, files, error_count, idx>>
       ELSE /\ frames' = Append(frames, SampleFrame)
            /\ UNCHANGED <<st, closedBy, escaped>>
            /\ IF IsNone(rtt)
               THEN /\ pc' = "send_error"
                    /\ UNCHANGED <<files, error_count, idx>>
               ELSE /\ files' = save_to_csv(files, "ping", PingData, clock)
                    /\ error_count' = 0
                    /\ idx' = idx + 1
                    /\ pc' = "sleep"
    /\ UNCHANGED <<mode, inbox, sessions, storeVars, shotVars, connected, startVars, window, rtt, outcomes, cooldowns,
                   pathVars, procVars, clock, fnVars>>

\* main.py:278-295: the diagnostic error frame of a lost probe; then the
\* cooldown when the counter has reached the threshold, else the next index
SendError ==
    /\ pc = "send_error"
    /\ IF ~connected
       THEN /\ Close("send_failed", FALSE)
            /\ UNCHANGED <<frames, idx>>
       ELSE /\ frames' = Append(frames, PingErrorFrame)
            /\ UNCHANGED <<st, closedBy, escaped>>
            /\ IF error_count >= ERROR_THRESHOLD
               THEN pc' = "cooldown" /\ idx' = idx
               ELSE pc' = "sleep" /\ idx' = idx + 1
    /\ UNCHANGED <<mode, inbox, sessions, storeVars, shotVars, connected, startVars, window, error_count, rtt,
                   outcomes, cooldowns, pathVars, procVars, files, clock, fnVars>>

\* Cooldown that goes back to the loop head without idx += 1
Cooldown_KeepsIndex ==
    /\ pc = "cooldown"
    /\ error_count' = 0
    /\ cooldowns' = Append(cooldowns, idx)
    /\ idx' = idx
    /\ pc' = "sleep"
    /\ clock' = clock + 1
    /\ UNCHANGED <<mode, inbox, sessions, storeVars, shotVars, st, closedBy, escaped, connected, startVars, window,
                   rtt, outcomes, pathVars, procVars, frames, files, fnVars>>

\* main.py:291-295: asyncio.sleep(5) returns, the counter is reset
Cooldown ==
    /\ pc = "cooldown"
    /\ error_count' = 0
    /\ cooldowns' = Append(cooldowns, idx)
    /\ idx' = idx + 1
    /\ pc' = "sleep"
    /\ clock' = clock + 1
    /\ UNCHANGED <<mode, inbox, sessions, storeVars, shotVars, st, closedBy, escaped, connected, startVars, window,
                   rtt, outcomes, pathVars, procVars, frames, files, fnVars>>

\* main.py:296, 231-232: the inter-sample sleep returns and the next
\* iteration launches its probe
SleepThenProbe ==
    /\ pc = "sleep" /\ Len(outcomes) < MaxProbes
    /\ pc' = "probe_wait"
    /\ proc' = IF tool_ok THEN "running" ELSE proc
    /\ launched' = IF tool_ok THEN launched + 1 ELSE launched
    /\ clock' = clock + 1
    /\ UNCHANGED <<mode, inbox, sessions, storeVars, shotVars, st, closedBy, escaped, connected, startVars, pingVars,
                   pathVars, frames, files, fnVars>>

\* CancelPing with the cancellation noted and the loop carrying on
CancelPing_Swallowed ==
    /\ mode = "latency"
    /\ pc \in {"probe_wait", "send_sample", "send_error", "cooldown", "sleep"}
    /\ closedBy = "" /\ closedBy' = "cancelled"
    /\ UNCHANGED <<mode, inbox, sessions, storeVars, shotVars, st, pc, escaped, connected, startVars,
                   pingVars, pathVars, procVars, frames, files, clock, fnVars>>

\* main.py:298-299: the task is cancelled while the coroutine is suspended;
\* CancelledError is raised at the await and _stream_ping returns.  Nothing
\* terminates a subprocess whose communicate() was being awaited.
CancelPing ==
    /\ mode = "latency"
    /\ pc \in {"probe_wait", "send_sample", "send_error", "cooldown", "sleep"}
    /\ Close("cancelled", FALSE)
    /\ UNCHANGED <<mode, inbox, sessions, storeVars, shotVars, connected, startVars, pingVars, pathVars, procVars,
                   frames, files, clock, fnVars>>

\* a ping left running by a closed session ends by itself (-n 1 -w 1000)
OrphanExit ==
    /\ st = "Closed" /\ proc = "running"
    /\ proc' = "none"
    /\ UNCHANGED <<mode, inbox, sessions, storeVars, shotVars, ctlVars, connected, startVars, pingVars, pathVars,
                   launched, frames, files, clock, fnVars>>

-----------------------------------------------------------------------------
(* _stream_traceroute (main.py:149-222) *)

LineFrame(text) == [type |-> "line", text |-> text]
HopFrame(hop) == [type |-> "hop", hop |-> hop]
\* DoneFrame without the accumulated hops
DoneFrame_NoHops == [type |-> "done", hops |-> <<>>, ts |-> clock]
DoneFrame == [type |-> "done", hops |-> hops, ts |-> clock]

\* main.py:215
TracerouteData == [target |-> Val(host), hops |-> hops, timestamp |-> clock]

\* main.py:173-178: the line starts with a digit and its first token is an
\* integer; any other line is only echoed
IsHopLine(text) == Qualifies(text) /\ ~IsNone(HopNum(text))

\* ReadLine with the hop accumulated for the done frame but no hop frame sent
ReadLine_NoHopFrame(text) ==
    /\ mode = "path" /\ pc = "read_line" /\ linesRead < MaxLines
    /\ linesRead' = linesRead + 1
    /\ frames' = IF connected THEN Append(frames, LineFrame(text)) ELSE frames
    /\ hops' = IF IsHopLine(text) THEN Append(hops, ParseHop(text)) ELSE hops
    /\ UNCHANGED <<mode, inbox, sessions, storeVars, shotVars, ctlVars, connected, startVars, pingVars,
                   procVars, files, clock, fnVars>>

\* ReadLine leaving the read loop when int() fails on the first token
ReadLine_StopsOnBadToken(text) ==
    /\ mode = "path" /\ pc = "read_line" /\ linesRead < MaxLines
    /\ linesRead' = linesRead + 1
    /\ frames' = IF connected THEN Append(frames, LineFrame(text)) ELSE frames
    /\ IF IsHopLine(text)
       THEN hops' = Append(hops, ParseHop(text)) /\ pc' = "send_hop"
       ELSE hops' = hops
            /\ pc' = IF Qualifies(text) THEN "send_done" ELSE "read_line"
    /\ UNCHANGED <<mode, inbox, sessions, storeVars, shotVars, st, closedBy, escaped, connected, startVars, pingVars,
                   procVars, files, clock, fnVars>>

\* main.py:162-197: one output line is read, echoed as a line frame (a failed
\* send is ignored) and, when it is a hop line, parsed and accumulated
ReadLine(text) ==
    /\ mode = "path" /\ pc = "read_line" /\ linesRead < MaxLines
    /\ linesRead' = linesRead + 1
    /\ frames' = IF connected THEN Append(frames, LineFrame(text)) ELSE frames
    /\ IF Qualifies(text) /\ ~IsNone(HopNum(text))
       THEN hops' = Append(hops, ParseHop(text)) /\ pc' = "send_hop"
       ELSE hops' = hops /\ pc' = "read_line"
    /\ UNCHANGED <<mode, inbox, sessions, storeVars, shotVars, st, closedBy, escaped, connected, startVars, pingVars,
                   procVars, files, clock, fnVars>>

\* SendHop that ignores a failed send, as the line frame's send does
SendHop_IgnoresFailure ==
    /\ pc = "send_hop"
    /\ frames' = IF connected THEN Append(frames, HopFrame(hops[Len(hops)]))
                  ELSE frames
    /\ pc' = "read_line"
    /\ UNCHANGED <<st, closedBy, escaped>>
    /\ UNCHANGED <<mode, inbox, sessions, storeVars, shotVars, connected, startVars, pingVars, pathVars, procVars,
                   files, clock, fnVars>>

\* main.py:199-203: the hop frame is sent; a failed send returns
SendHop ==
    /\ pc = "send_hop"
    /\ IF connected
       THEN /\ frames' = Append(frames, HopFrame(hops[Len(hops)]))
            /\ pc' = "read_line"
            /\ UNCHANGED <<st, closedBy, escaped>>
       ELSE /\ Close("send_failed", FALSE)
            /\ UNCHANGED frames
    /\ UNCHANGED <<mode, inbox, sessions, storeVars, shotVars, connected, startVars, pingVars, pathVars, procVars,
                   files, clock, fnVars>>

\* main.py:162-164, 206: readline() returns b"" and the process is waited for
EndOfOutput ==
    /\ mode = "path" /\ pc = "read_line"
    /\ proc' = "none"
    /\ pc' = "send_done"
    /\ clock' = clock + 1
    /\ UNCHANGED <<mode, inbox, sessions, storeVars, shotVars, st, closedBy, escaped, connected, startVars, pingVars,
                   pathVars, launched, frames, files, fnVars>>

\* main.py:208-216: the done frame (a failed send is ignored), then the record
SendDone ==
    /\ pc = "send_done"
    /\ frames' = IF connected THEN Append(frames, DoneFrame) ELSE frames
    /\ files' = save_to_csv(files, "traceroute", TracerouteData, clock)
    /\ Close("done", FALSE)
    /\ UNCHANGED <<mode, inbox, sessions, storeVars, shotVars, connected, startVars, pingVars, pathVars, procVars,
                   clock, fnVars>>

\* the task is cancelled at an await of _stream_traceroute: CancelledError is
\* no Exception, so no except clause of main.py:218 or 138-146 catches it
CancelPath ==
    /\ mode = "path"
    /\ pc \in {"read_line", "send_hop", "send_done"}
    /\ Close("cancelled", TRUE)
    /\ UNCHANGED <<mode, inbox, sessions, storeVars, shotVars, connected, startVars, pingVars, pathVars, procVars,
                   frames, files, clock, fnVars>>

-----------------------------------------------------------------------------
(* The streaming-session specification *)

Next ==
    \/ ClientGone
    \/ HandshakeInfo
    \/ DisconnectBeforeStart
    \/ \E m \in START_MSGS : ReceiveStart(m)
    \/ FinalError
    \/ \E out \in PING_OUTPUTS : PingReturn(out)
    \/ SendSample
    \/ SendError
    \/ Cooldown
    \/ SleepThenProbe
    \/ CancelPing
    \/ OrphanExit
    \/ \E text \in TRACE_LINES : ReadLine(text)
    \/ SendHop
    \/ EndOfOutput
    \/ SendDone
    \/ CancelPath

Spec == Init /\ [][Next]_vars

-----------------------------------------------------------------------------
(* Sessions whose client keeps sending after its start message.  Neither    *)
(* ws_ping nor ws_traceroute calls receive_text() a second time             *)
(* (main.py:92, 130), so what arrives later stays in the connection's       *)
(* receive queue.  Latency sessions are followed for MaxChattyProbes        *)
(* probes, which leaves the cooldown out of reach.                          *)

\* messages a client can send after its start message: another start
\* message, for another host and interval, and text that is no JSON
LATER_MSGS ==
    { [json |-> TRUE, obj |-> TRUE, host |-> Some("h2"),
       interval |-> [kind |-> "num", ms |-> 5000]],
      [json |-> FALSE] }

\* ClientSendsLater with a receive loop that takes the message at once and
\* restarts the stream on the host and interval it names
ClientSendsLater_Handled(m) ==
    /\ st = "Sampling" /\ connected /\ Len(inbox) < MaxLater
    /\ inbox' = Append(inbox, m)
    /\ IF m.json
       THEN host' = m.host /\ interval_ms' = IntervalMs(m.interval)
            /\ msg' = Some(m)
       ELSE UNCHANGED startVars
    /\ UNCHANGED <<mode, sessions, storeVars, shotVars, ctlVars, connected,
                   pingVars, pathVars, procVars, frames, files, clock, fnVars>>

\* a message of the client arrives while the session streams
ClientSendsLater(m) ==
    /\ st = "Sampling" /\ connected /\ Len(inbox) < MaxLater
    /\ inbox' = Append(inbox, m)
    /\ UNCHANGED <<mode, sessions, storeVars, shotVars, ctlVars, connected,
                   startVars, pingVars, pathVars, procVars, frames, files,
                   clock, fnVars>>

\* the next iteration of a latency session, up to MaxChattyProbes probes
ChattyProbe ==
    /\ Len(outcomes) < MaxChattyProbes
    /\ SleepThenProbe

NextChatty ==
    \/ \E m \in LATER_MSGS : ClientSendsLater(m)
    \/ ClientGone
    \/ HandshakeInfo
    \/ DisconnectBeforeStart
    \/ \E m \in START_MSGS : ReceiveStart(m)
    \/ FinalError
    \/ \E out \in PING_OUTPUTS : PingReturn(out)
    \/ SendSample
    \/ SendError
    \/ ChattyProbe
    \/ CancelPing
    \/ OrphanExit
    \/ \E text \in TRACE_LINES : ReadLine(text)
    \/ SendHop
    \/ EndOfOutput
    \/ SendDone
    \/ CancelPath

SpecChatty == Init /\ [][NextChatty]_vars

-----------------------------------------------------------------------------
(* The function specification of summarize_window: the argument is any      *)
(* window of at most MaxWin values, the one action applies the function.    *)

RECURSIVE SeqsUpTo(_, _)
SeqsUpTo(S, n) ==
    IF n = 0 THEN {<<>>}
    ELSE LET shorter == SeqsUpTo(S, n - 1)
         IN  shorter \cup {Append(q, x) : q \in shorter, x \in S}

InitSummarize ==
    /\ mode = "none" /\ st = "Closed" /\ pc = "done" /\ connected = FALSE
    /\ tool_ok = TRUE
    /\ Idle
    /\ arg \in SeqsUpTo(WIN_RTTS, MaxWin)
    /\ res = None

ApplySummarize ==
    /\ mode = "none" /\ res = None
    /\ res' = Some(summarize_window(arg))
    /\ UNCHANGED <<mode, inbox, sessions, storeVars, shotVars, ctlVars, connected, startVars, pingVars,
                   pathVars, procVars, frames, files, clock, arg>>

SpecSummarize == InitSummarize /\ [][ApplySummarize]_vars

-----------------------------------------------------------------------------
(* One-shot probes: run_cmd (main.py:32-52), parse_tracert (312-359),       *)
(* traceroute_endpoint (361-405), iperf_endpoint (486-532).  The text that  *)
(* run_cmd returns is a record: kind "lines" holds tracert output as token  *)
(* lines, the other kinds stand for the texts the endpoints tell apart.     *)

\* str(e) of the exception run_cmd caught (main.py:51-52): the message of a
\* FileNotFoundError; str(TimeoutError()) is the empty text
NotFoundText == [kind |-> "errtext", error |-> "FileNotFoundError"]
EmptyText == [kind |-> "empty"]
\* tracert's "Unable to resolve target system name <host>."
UnresolvedText == [kind |-> "unresolved"]
\* iperf3's "... unable to connect to server: connect failed ..."
ConnectFailedText == [kind |-> "connect_failed"]
\* any other text that is not JSON
GarbageText == [kind |-> "garbage"]

\* tokens made of digits directly followed by ms
GLUED_MS_TOKENS == [t \in {"7ms"} |-> 7]

\* whole outputs of one tracert run
TRACERT_TEXTS ==
    { [kind |-> "lines", lines |-> ls] : ls \in
        { << <<"Tracing", "route", "to", "h1">>,
             <<"1", "<1", "ms", "5", "ms", "10.0.0.1">>,
             <<"2", "12", "ms", "15", "ms", "10.0.0.2">> >>,
          << <<"1", "7ms", "10.0.0.1">>,
             <<"3", "*", "*", "Request", "timed", "out.">> >>,
          << <<"Tracing", "route", "to", "h1">>, <<>> >> } }

\* A JSON document of iperf3 -J, reduced to what parse_iperf3_json reads
\* of it (main.py:420-434): data["end"]["sum"] and data["end"]["sum_received"],
\* each absent (None) or a dictionary; a dictionary is a record that has
\* exactly the keys present.  Numbers are integers; jitter_ms is held in
\* thousandths of a millisecond.
TcpSummary(b) == [bits_per_second |-> b]
UdpSummary(b, j, n, l) ==
    [bits_per_second |-> b, jitter_ms_e3 |-> j, packets |-> n, lost_packets |-> l]
EmptyDict == [x \in {} |-> 0]
\* a document with its four parts: end.sum, end.sum_sent (iperf3's name of
\* the sender's summary of a TCP test, a key the parser does not read),
\* end.sum_received and the list "intervals"
IperfDocOf(sum, sum_sent, sum_received, intervals) ==
    [sum |-> sum, sum_sent |-> sum_sent, sum_received |-> sum_received,
     intervals |-> intervals]
IperfDoc(sent, received) == IperfDocOf(sent, None, received, <<>>)

\* JSON documents iperf3 prints to a one-shot request
IPERF_TEXTS ==
    { [kind |-> "json", doc |-> d] :
        d \in { IperfDoc(Some(TcpSummary(94000000)), None),
                IperfDoc(Some(UdpSummary(1200, 250, 3, 1)), None) } }

\* main.py:366  "Unable to resolve target system name" in out
HasUnresolved(t) == t.kind = "unresolved"
\* main.py:495  "connect failed" in raw.lower()
HasConnectFailed(t) == t.kind = "connect_failed"
\* main.py:497  not raw or raw.strip() == ""
IsBlank(t) == t.kind = "empty"

\* main.py:315  output.splitlines(); every message text is one line that
\* does not start with a digit
TextLines(t) ==
    CASE t.kind = "lines" -> t.lines
      [] t.kind = "empty" -> <<>>
      [] OTHER -> << <<"message">> >>

\* main.py:319-331: the line counts as a hop
OneShotIsHop(line) ==
    /\ Qualifies(line) /\ Len(line) >= 2 /\ ~IsNone(HopNum(line))

\* main.py:334-343: only a token such as 7ms is an RTT; min() at 355
OneShotRtt(line) ==
    LET rs == { GLUED_MS_TOKENS[line[i]] :
                  i \in { j \in 2..Len(line) : line[j] \in DOMAIN GLUED_MS_TOKENS } }
    IN  IF rs = {} THEN None ELSE Some(CHOOSE m \in rs : \A x \in rs : m <= x)

\* main.py:346-350: the last token after the first that neither ends with
\* ms nor is one of "*", "Request", "timed", "out"
OneShotIp(line) ==
    LET ok == { i \in 2..Len(line) :
                  /\ line[i] \notin DOMAIN GLUED_MS_TOKENS \cup {"ms"}
                  /\ line[i] \notin {"*", "Request", "timed", "out"} }
    IN  IF ok = {} THEN "*" ELSE line[CHOOSE m \in ok : \A x \in ok : m >= x]

\* main.py:312-359
parse_tracert(t) ==
    LET hopLines == SelectSeq(TextLines(t), OneShotIsHop)
    IN  [i \in 1..Len(hopLines) |->
            [hop |-> Val(HopNum(hopLines[i])), ip |-> OneShotIp(hopLines[i]),
             rtt_ms |-> OneShotRtt(hopLines[i])]]

\* round(n / d, 0) for n >= 0, d > 0: the nearest integer, an exact half
\* going to the even neighbour
RoundDiv(n, d) ==
    LET q == n \div d
        r2 == 2 * (n % d)
    IN  IF r2 < d THEN q
        ELSE IF r2 > d THEN q + 1
        ELSE IF q % 2 = 0 THEN q ELSE q + 1

\* dict.get(key, default)
Get(d, key, default) == IF key \in DOMAIN d THEN d[key] ELSE default

\* dict.update / {**a, **b}: the keys of more win
DictUpdate(base, more) ==
    [k \in DOMAIN base \cup DOMAIN more |->
        IF k \in DOMAIN more THEN more[k] ELSE base[k]]

\* main.py:421  end_data.get("sum") or end_data.get("sum_received") or {}
\* (an absent and an empty summary are both falsy)
SumData(doc) ==
    LET truthy(o) == ~IsNone(o) /\ Val(o) # EmptyDict
    IN  IF truthy(doc.sum) THEN Val(doc.sum)
        ELSE IF truthy(doc.sum_received) THEN Val(doc.sum_received)
        ELSE EmptyDict

\* main.py:424-425  round(bps / 1_000_000.0, 3), in thousandths of a Mbps
BandwidthE3(sum_data) == RoundDiv(Get(sum_data, "bits_per_second", 0), 1000)

\* the loss as a fraction of the packets instead of a percentage
LossPctE3_Fraction(sum_data) ==
    LET packets == Get(sum_data, "packets", 0)
        lost == Get(sum_data, "lost_packets", 0)
    IN  IF packets # 0 THEN RoundDiv(1000 * lost, packets) ELSE 0

\* main.py:432-434  round(100.0 * (lost / packets), 3) if packets else 0.0,
\* in thousandths of a percent
LossPctE3(sum_data) ==
    LET packets == Get(sum_data, "packets", 0)
        lost == Get(sum_data, "lost_packets", 0)
    IN  IF packets # 0 THEN RoundDiv(100000 * lost, packets) ELSE 0

\* main.py:441-446  interval_data.get("sum") or {}, and when that is empty
\* and the interval has streams, streams[0].get("sum", {}).  An interval is
\* [sum, streams]: an Optional dictionary and the list of its streams, each
\* [sum |-> Optional dictionary].
IntervalSum(iv) ==
    LET top == IF IsNone(iv.sum) THEN EmptyDict ELSE Val(iv.sum)
    IN  IF top = EmptyDict /\ iv.streams # <<>>
        THEN (IF IsNone(iv.streams[1].sum) THEN EmptyDict
              ELSE Val(iv.streams[1].sum))
        ELSE top

\* main.py:448-479: the entry of interval number i (from 0).  Start and end
\* are whole seconds, so the label f"{start:.1f}-{end:.1f}" is held as the
\* pair of them; transfer (MBytes) and bitrate (Mbps) are rounded to 2
\* decimals and held in hundredths.
IntervalEntry(iv, i) ==
    LET sum_interval == IntervalSum(iv)
        labelled == {"start", "end"} \subseteq DOMAIN sum_interval
    IN  [interval |-> IF labelled
                      THEN <<sum_interval.start, sum_interval.end>>
                      ELSE <<i, i + 1>>,
         transfer_e2 |-> RoundDiv(100 * Get(sum_interval, "bytes", 0), 1048576),
         bitrate_e2 |-> RoundDiv(Get(sum_interval, "bits_per_second", 0), 10000)]

\* main.py:413-484: the result, or the HTTPException raised for text that
\* is no JSON (its detail is the decoder's message, not the text).
parse_iperf3_json(t) ==
    IF t.kind = "json"
    THEN LET sum_data == SumData(t.doc)
             bw == [bandwidth_mbps_e3 |-> BandwidthE3(sum_data)]
             figures ==
                 IF "jitter_ms_e3" \in DOMAIN sum_data
                 THEN DictUpdate(bw, [jitter_ms_e3 |-> sum_data.jitter_ms_e3,
                                      loss_pct_e3 |-> LossPctE3(sum_data)])
                 ELSE bw
             intervals == t.doc.intervals
         IN  [raised |-> FALSE,
              result |->
                 IF intervals # <<>>
                 THEN DictUpdate(figures,
                        [intervals |->
                            [i \in 1..Len(intervals) |->
                                IntervalEntry(intervals[i], i - 1)]])
                 ELSE figures]
    ELSE [raised |-> TRUE, status |-> 500,
          detail |-> <<"iperf3 JSON parse error", "JSONDecodeError">>]

\* an HTTPException, and the response the framework makes of one
\* raw is the tool output quoted in the detail, if any (main.py:498)
HTTPException(status, detail) ==
    [class |-> "HTTPException", status |-> status, detail |-> detail,
     raw |-> None]
WithRaw(e, text) == [e EXCEPT !.raw = Some(text)]
Fail(e) == [status |-> e.status, detail |-> e.detail, raw |-> e.raw,
            body |-> None]
Ok(body) == [status |-> 200, detail |-> <<>>, raw |-> None, body |-> Some(body)]

\* main.py:402-405 / 529-532: the except clauses around an endpoint's body.
\* An HTTPException raised inside the body is an Exception too and lands in
\* the second clause; str(e) is rendered here as the detail of e.
ExceptClauses(tool, e) ==
    IF e.class = "FileNotFoundError"
    THEN HTTPException(500, <<tool, "command not found in PATH">>)
    ELSE [HTTPException(500, <<"Error running", tool>> \o e.detail)
            EXCEPT !.raw = e.raw]

\* main.py:361-405 after run_cmd returned out: the response and the record
\* handed to save_to_csv, if any
traceroute_endpoint(h, out, ts) ==
    IF HasUnresolved(out)
    THEN [resp |-> Fail(ExceptClauses("tracert",
                     HTTPException(400, <<"Unable to resolve hostname">>))),
          save |-> None]
    ELSE LET found == parse_tracert(out)
         IN  IF found = <<>>
             THEN [resp |-> Ok([ts |-> ts, host |-> h, hops |-> <<>>,
                                raw |-> out, message |-> "No hops parsed"]),
                   save |-> Some([target |-> h, hops |-> <<>>, raw |-> out])]
             ELSE [resp |-> Ok([ts |-> ts, host |-> h, hops |-> found]),
                   save |-> Some([target |-> h, hops |-> found])]

\* main.py:486-532 after run_cmd returned raw
iperf_endpoint(r, raw, ts) ==
    LET parsed == parse_iperf3_json(raw)
        raise(e) == [resp |-> Fail(ExceptClauses("iperf3", e)), save |-> None]
    IN  IF HasConnectFailed(raw)
        THEN raise(HTTPException(400, <<"Failed to connect to iperf3 server">>))
        ELSE IF IsBlank(raw)
        THEN raise(WithRaw(HTTPException(500, <<"iperf3 returned no output">>),
                           raw))
        ELSE IF parsed.raised
        THEN raise(HTTPException(parsed.status, parsed.detail))
        ELSE LET result == DictUpdate(parsed.result,
                              [ts |-> ts, server |-> r.server,
                               protocol |-> r.protocol,
                               duration_s |-> r.duration])
             IN  [resp |-> Ok(result), save |-> Some(result)]

\* NodeActionReq.action (main.py:558) as clients write it, and
\* request.action.lower() (main.py:579, 591, 609, 638)
NODE_ACTIONS == {"ping", "Traceroute", "iperf", "reboot"}
Lower(a) == IF a = "Traceroute" THEN "traceroute" ELSE a

\* the output of `ping -n 1` as a tool text
PingText(fields) == [kind |-> "ping", fields |-> fields]
\* parse_ping_rtt_ms over a tool text: the str(e) of a launch failure has
\* no time field
TextRtt(t) == IF t.kind = "ping" THEN parse_ping_rtt_ms(t.fields) ELSE None

\* main.py:579-632 after run_cmd returned out, for an action that is one
\* of ping, traceroute, iperf: the result built, or the HTTPException raised
NodeActionResult(r, out, ts) ==
    LET action == Lower(r.action)
        raise(e) == [raised |-> TRUE, e |-> e]
        done(result) == [raised |-> FALSE, result |-> result]
        base == [ts |-> ts, node_id |-> r.node_id, action |-> action,
                 target |-> r.node_id, success |-> TRUE]
    IN  CASE action = "ping" ->
               IF IsNone(TextRtt(out))
               THEN raise(HTTPException(408,
                              <<"Ping timed out or host unreachable">>))
               ELSE done(DictUpdate(base, [rtt_ms |-> Val(TextRtt(out))]))
          [] action = "traceroute" ->
               IF HasUnresolved(out)
               THEN raise(HTTPException(400, <<"Unable to resolve hostname">>))
               ELSE IF parse_tracert(out) = <<>>
               THEN raise(HTTPException(500,
                              <<"Failed to parse tracert output">>))
               ELSE done(DictUpdate(base, [hops |-> parse_tracert(out)]))
          [] OTHER ->
               IF HasConnectFailed(out)
               THEN raise(HTTPException(400,
                              <<"Failed to connect to iperf3 server">>))
               ELSE IF parse_iperf3_json(out).raised
               THEN raise(HTTPException(parse_iperf3_json(out).status,
                                        parse_iperf3_json(out).detail))
               ELSE done(DictUpdate(base,
                              [result |-> parse_iperf3_json(out).result]))

\* node_action_endpoint that records the request whatever its outcome
node_action_endpoint_SavesAlways(r, out, ts) ==
    LET x == NodeActionResult(r, out, ts)
    IN  IF x.raised
        THEN [resp |-> Fail(x.e),
              save |-> Some([ts |-> ts, node_id |-> r.node_id,
                             success |-> FALSE])]
        ELSE [resp |-> Ok(x.result), save |-> Some(x.result)]

\* main.py:574-644 after run_cmd returned out: the response and the record
\* handed to save_to_csv, if any.  The record is saved after the result is
\* built (main.py:637-639); an HTTPException raised before is re-raised as
\* it is (main.py:641-642).
node_action_endpoint(r, out, ts) ==
    LET x == NodeActionResult(r, out, ts)
    IN  IF x.raised
        THEN [resp |-> Fail(x.e), save |-> None]
        ELSE [resp |-> Ok(x.result), save |-> Some(x.result)]

\* hosts of one-shot requests; tracert cannot resolve the second
ONE_SHOT_HOSTS == {"h1", "nx"}
UNRESOLVABLE == {"nx"}

\* TraceReq (main.py:309-310), IperfReq (main.py:408-411) and NodeActionReq
\* (main.py:556-558)
ONE_SHOT_REQUESTS ==
    { [endpoint |-> "traceroute", host |-> h] : h \in ONE_SHOT_HOSTS }
    \cup { [endpoint |-> "iperf", server |-> "h1", duration |-> d, protocol |-> p] :
             d \in {1, 10}, p \in {"tcp", "udp"} }
    \cup { [endpoint |-> "node_action", node_id |-> "h1", action |-> a] :
             a \in NODE_ACTIONS }
    \cup { [endpoint |-> "node_action", node_id |-> "nx",
            action |-> "Traceroute"] }

\* the tool a request runs and the store its record goes to
RequestTool(r) ==
    IF r.endpoint = "node_action" THEN Lower(r.action) ELSE r.endpoint
\* the host a request names
RequestHost(r) ==
    CASE r.endpoint = "traceroute" -> r.host
      [] r.endpoint = "iperf" -> r.server
      [] OTHER -> r.node_id

\* what the tool of a request can print before it exits
ToolTexts(r) ==
    CASE RequestTool(r) = "traceroute" ->
            IF RequestHost(r) \in UNRESOLVABLE THEN {UnresolvedText}
            ELSE TRACERT_TEXTS \cup {EmptyText}
      [] RequestTool(r) = "ping" -> { PingText(f) : f \in PING_OUTPUTS }
      [] OTHER -> IPERF_TEXTS \cup {ConnectFailedText, GarbageText, EmptyText}

\* a request arrives at an idle server
InitOneShot ==
    /\ mode = "oneshot" /\ st = "Closed" /\ pc = "call" /\ connected = FALSE
    /\ tool_ok \in BOOLEAN
    /\ Idle
    /\ arg \in ONE_SHOT_REQUESTS
    /\ res = None

\* main.py:41-45: create_subprocess_exec; with the tool missing it raises
\* FileNotFoundError, which main.py:51-52 turns into run_cmd's return value
RunCmdLaunch ==
    /\ mode = "oneshot" /\ pc = "call"
    /\ RequestTool(arg) \in TOOLS
    /\ IF tool_ok
       THEN /\ proc' = "running" /\ launched' = launched + 1
            /\ pc' = "run_wait"
            /\ UNCHANGED cmd_out
       ELSE /\ cmd_out' = Some(NotFoundText)
            /\ pc' = "respond"
            /\ UNCHANGED procVars
    /\ UNCHANGED <<mode, inbox, sessions, storeVars, tool_ok, timed_out, served, st, closedBy, escaped,
                   connected, startVars, pingVars, pathVars, frames, files,
                   clock, fnVars>>

\* main.py:46-50: communicate() returns the output of the exited process
RunCmdReturn(text) ==
    /\ mode = "oneshot" /\ pc = "run_wait"
    /\ text \in ToolTexts(arg)
    /\ proc' = "none"
    /\ cmd_out' = Some(text)
    /\ pc' = "respond"
    /\ clock' = clock + 1
    /\ UNCHANGED <<mode, inbox, sessions, storeVars, tool_ok, timed_out, served, st, closedBy, escaped,
                   connected, startVars, pingVars, pathVars, launched, frames,
                   files, fnVars>>

\* main.py:46-47, 51-52: wait_for gives up and raises TimeoutError, whose
\* str() is the empty text that run_cmd returns; the process is not touched.
\* node_action_endpoint passes no timeout (main.py:580, 597, 613).
RunCmdTimeout ==
    /\ mode = "oneshot" /\ pc = "run_wait"
    /\ arg.endpoint # "node_action"
    /\ timed_out' = TRUE
    /\ cmd_out' = Some(EmptyText)
    /\ pc' = "respond"
    /\ clock' = clock + 1
    /\ UNCHANGED <<mode, inbox, sessions, storeVars, tool_ok, served, st, closedBy, escaped, connected,
                   startVars, pingVars, pathVars, procVars, frames, files,
                   fnVars>>

\* the rest of the endpoint: the response, and the record when one is saved
Respond ==
    /\ mode = "oneshot" /\ pc = "respond"
    /\ LET o == CASE arg.endpoint = "traceroute" ->
                        traceroute_endpoint(arg.host, Val(cmd_out), clock)
                   [] arg.endpoint = "iperf" ->
                        iperf_endpoint(arg, Val(cmd_out), clock)
                   [] OTHER ->
                        node_action_endpoint(arg, Val(cmd_out), clock)
       IN  /\ res' = Some(o.resp)
           /\ files' = IF IsNone(o.save) THEN files
                       ELSE save_to_csv(files, RequestTool(arg), Val(o.save),
                                        clock)
    /\ served' = served + 1
    /\ pc' = "done"
    /\ UNCHANGED <<mode, inbox, sessions, storeVars, tool_ok, cmd_out, timed_out, st, closedBy, escaped,
                   connected, startVars, pingVars, pathVars, procVars, frames,
                   clock, arg>>

\* main.py:634-635: an action that is none of the three is refused before
\* any command is run
UnknownAction ==
    /\ mode = "oneshot" /\ pc = "call"
    /\ RequestTool(arg) \notin TOOLS
    /\ res' = Some(Fail(HTTPException(400, <<"Unknown action", arg.action>>)))
    /\ served' = served + 1
    /\ pc' = "done"
    /\ UNCHANGED <<mode, inbox, sessions, storeVars, tool_ok, cmd_out, timed_out, st, closedBy, escaped,
                   connected, startVars, pingVars, pathVars, procVars, frames,
                   files, clock, arg>>

\* the process that outlived its timeout ends by itself
TimedOutToolExits ==
    /\ mode = "oneshot" /\ pc \in {"respond", "done"} /\ proc = "running"
    /\ proc' = "none"
    /\ UNCHANGED <<mode, inbox, sessions, storeVars, shotVars, ctlVars, connected, startVars, pingVars,
                   pathVars, launched, frames, files, clock, fnVars>>

\* the next request is taken once no process of the previous one is left
NewRequest(r) ==
    /\ mode = "oneshot" /\ pc = "done" /\ proc = "none"
    /\ served < MaxRequests
    /\ arg' = r /\ res' = None
    /\ cmd_out' = None /\ timed_out' = FALSE
    /\ pc' = "call"
    /\ UNCHANGED <<mode, inbox, sessions, storeVars, tool_ok, served, st, closedBy, escaped, connected,
                   startVars, pingVars, pathVars, procVars, frames, files,
                   clock>>

NextOneShot ==
    \/ RunCmdLaunch
    \/ \E text \in TRACERT_TEXTS \cup IPERF_TEXTS
                   \cup { PingText(f) : f \in PING_OUTPUTS }
                   \cup {UnresolvedText, ConnectFailedText, GarbageText,
                         EmptyText} : RunCmdReturn(text)
    \/ UnknownAction
    \/ RunCmdTimeout
    \/ Respond
    \/ TimedOutToolExits
    \/ \E r \in ONE_SHOT_REQUESTS : NewRequest(r)

SpecOneShot == InitOneShot /\ [][NextOneShot]_vars

-----------------------------------------------------------------------------
(* The history store: save_to_csv and load_from_csv (models.py:96-145, the  *)
(* second definitions, which replace the first ones at import).             *)

\* the data column of a line whose text is not JSON
NotJson == [notjson |-> TRUE]

\* csv.DictReader (models.py:129): the first line is the header, every other
\* line a row
DataLines(fs, tool) == IF fs[tool] = <<>> THEN <<>> ELSE Tail(fs[tool])

\* row["data"] is None for a line without the data column, and json.loads
\* (None) raises TypeError, which models.py:140 does not catch
RowRaises(line) == "data" \notin DOMAIN line
\* models.py:132, 140-141: JSONDecodeError, the row is skipped
RowSkipped(line) == line.data = NotJson

\* models.py:134  not (target and data.get("target") != target
\*                              and data.get("server") != target)
\* an omitted or empty target is falsy and filters nothing
Matches(data, target) ==
    ~(/\ target # ""
      /\ Get(data, "target", "") # target
      /\ Get(data, "server", "") # target)

\* indices of the rows that reach results.append, in file order
KeptRows(fs, tool, target) ==
    LET lines == DataLines(fs, tool)
    IN  SelectSeq([i \in 1..Len(lines) |-> i],
                  LAMBDA i : /\ ~RowRaises(lines[i]) /\ ~RowSkipped(lines[i])
                             /\ Matches(lines[i].data, target))

\* models.py:136-140: {"id": len(results) + 1, "timestamp": ..., **data};
\* k is the position among the kept rows
ResultRecord(line, k) ==
    DictUpdate([id |-> k, timestamp |-> line.timestamp], line.data)

\* sorted(results, key=timestamp, reverse=True): descending, and stable, so
\* equal keys stay in their original order
SortedDesc(q) ==
    LET n == Len(q)
        before(i, j) == \/ q[i].rec.timestamp > q[j].rec.timestamp
                        \/ q[i].rec.timestamp = q[j].rec.timestamp /\ i < j
        rank(i) == 1 + Cardinality({ j \in 1..n : before(j, i) })
    IN  [p \in 1..n |-> q[CHOOSE i \in 1..n : rank(i) = p]]

\* Slice that ignores the limit
Slice_KeepsAll(q, limit) == q

\* q[:limit]
Slice(q, limit) ==
    LET n == IF limit >= 0 THEN (IF limit < Len(q) THEN limit ELSE Len(q))
             ELSE (IF Len(q) + limit > 0 THEN Len(q) + limit ELSE 0)
    IN  SubSeq(q, 1, n)

\* the records load_from_csv returns, each with the index of its row
LoadRows(fs, tool, target, limit) ==
    LET lines == DataLines(fs, tool)
        kept == KeptRows(fs, tool, target)
        results == [k \in 1..Len(kept) |->
                       [row |-> kept[k], rec |-> ResultRecord(lines[kept[k]], k)]]
    IN  Slice(SortedDesc(results), limit)

\* models.py:121-145
load_from_csv(fs, tool, target, limit) ==
    IF \E i \in 1..Len(DataLines(fs, tool)) : RowRaises(DataLines(fs, tool)[i])
    THEN [raised |-> TRUE, error |-> "TypeError"]
    ELSE LET found == LoadRows(fs, tool, target, limit)
         IN  [raised |-> FALSE,
              results |-> [i \in 1..Len(found) |-> found[i].rec]]

\* targets of stored records and of queries; "" is the empty target
STORE_TARGETS == {"h1", "h2"}

\* payloads handed to save_to_csv at time now: ping_data (main.py:252-258),
\* traceroute_data of a path session (main.py:215), which has a timestamp
\* key of its own, and the iperf result (main.py:515-525)
StorePayloads(tool, now) ==
    CASE tool = "ping" ->
            { [target |-> h, rtt_ms |-> 10, sample_index |-> 0] :
                h \in STORE_TARGETS }
      [] tool = "traceroute" ->
            { [target |-> "h1", hops |-> <<>>, timestamp |-> now] }
      [] OTHER ->
            { [server |-> "h1", bandwidth_mbps_e3 |-> 94000, ts |-> now] }

\* the store when the server starts: no file at all, or a ping file that
\* holds a line without data column or a line whose data is not JSON
INITIAL_STORES ==
    { [t \in TOOLS |-> <<>>],
      [t \in TOOLS |-> IF t = "ping"
                       THEN <<[header |-> TRUE], [timestamp |-> 0]>> ELSE <<>>],
      [t \in TOOLS |-> IF t = "ping"
                       THEN <<[header |-> TRUE],
                              [timestamp |-> 0, data |-> NotJson]>>
                       ELSE <<>>] }

\* history_endpoint (main.py:535-553): tool, target, limit
QUERIES ==
    [tool : TOOLS, target : STORE_TARGETS \cup {""}, limit : {-1, 0, 1, 2}]

InitStore ==
    /\ mode = "store" /\ st = "Closed" /\ pc = "done" /\ connected = FALSE
    /\ tool_ok = TRUE
    /\ host = None /\ interval_ms = 0 /\ msg = None
    /\ window = <<>> /\ idx = 0 /\ error_count = 0 /\ rtt = None
    /\ hops = <<>> /\ linesRead = 0 /\ frames = <<>>
    /\ proc = "none" /\ launched = 0
    /\ outcomes = <<>> /\ cooldowns = <<>>
    /\ closedBy = "" /\ escaped = FALSE
    /\ clock = 0
    /\ cmd_out = None /\ timed_out = FALSE /\ served = 0
    /\ appended = [t \in TOOLS |-> <<>>]
    /\ sessions = <<>> /\ inbox = <<>>
    /\ files \in INITIAL_STORES
    /\ arg = None /\ res = None

AppendsDone == Len(appended["ping"]) + Len(appended["traceroute"])
                    + Len(appended["iperf"])

\* A behaviour is a history of appends followed by the query under study.
\* One call of save_to_csv by a session or an endpoint: the call has no
\* await in it, so on the single event loop it runs from start to end;
\* the wall clock has moved on since the last call, or it has not.  The
\* payload was built by the caller before the call (main.py:215, 520), so
\* a time it carries is a reading of the clock no later than the store's.
StoreAppend(tool, tick) ==
    /\ mode = "store" /\ res = None /\ AppendsDone < MaxAppends
    /\ \E now \in {clock, clock + tick} : \E data \in StorePayloads(tool, now) :
          /\ files' = save_to_csv(files, tool, data, clock + tick)
          /\ appended' = [appended EXCEPT ![tool] =
                Append(@, [timestamp |-> clock + tick, data |-> data])]
    /\ clock' = clock + tick
    /\ UNCHANGED <<mode, inbox, sessions, shotVars, ctlVars, connected, startVars, pingVars,
                   pathVars, procVars, frames, fnVars>>

\* one call of load_from_csv
StoreQuery(q) ==
    /\ mode = "store" /\ res = None
    /\ arg' = Some(q)
    /\ res' = Some(load_from_csv(files, q.tool, q.target, q.limit))
    /\ UNCHANGED <<mode, inbox, sessions, shotVars, storeVars, ctlVars, connected, startVars,
                   pingVars, pathVars, procVars, frames, files, clock>>

NextStore ==
    \/ \E tool \in TOOLS, tick \in {0, 1} : StoreAppend(tool, tick)
    \/ \E q \in QUERIES : StoreQuery(q)

SpecStore == InitStore /\ [][NextStore]_vars

-----------------------------------------------------------------------------
(* The function specification of parse_ping_rtt_ms: the argument is any     *)
(* text of at most MaxTextFields fields, the one action applies the         *)
(* function.                                                                *)

InitPingParse ==
    /\ mode = "pingparse" /\ st = "Closed" /\ pc = "done" /\ connected = FALSE
    /\ tool_ok = TRUE
    /\ Idle
    /\ arg \in SeqsUpTo(FIELDS, MaxTextFields)
    /\ res = None

ApplyPingParse ==
    /\ mode = "pingparse" /\ res = None
    /\ res' = Some(parse_ping_rtt_ms(arg))
    /\ UNCHANGED <<mode, inbox, sessions, storeVars, shotVars, ctlVars, connected, startVars, pingVars,
                   pathVars, procVars, frames, files, clock, arg>>

SpecPingParse == InitPingParse /\ [][ApplyPingParse]_vars

-----------------------------------------------------------------------------
(* The function specification of the hop-line parser of _stream_traceroute  *)
(* (main.py:172-197): the argument is any line made of a first token and at *)
(* most MaxHopFields fields, the one action parses it.                      *)

\* first tokens: hop numbers, a digit-led token that is no integer, a word
FIRST_TOKENS == {"1", "3", "1x", "Tracing"}

\* the fields tracert prints after the hop number: a reading, a bare number,
\* a probe without answer, an address
HOP_FIELDS ==
    { <<"12", "ms">>, <<"15", "ms">>, <<"<1", "ms">>, <<"12">>, <<"*">>,
      <<"10.0.0.1">>, <<"10.0.0.2">> }

RECURSIVE Flatten(_)
Flatten(fields) ==
    IF fields = <<>> THEN <<>> ELSE Head(fields) \o Flatten(Tail(fields))

HOP_TEXTS ==
    { <<first>> \o Flatten(fields) :
        first \in FIRST_TOKENS, fields \in SeqsUpTo(HOP_FIELDS, MaxHopFields) }

\* main.py:173-197: the hop appended for a line, None when the line is
\* skipped
StreamHop(text) == IF IsHopLine(text) THEN Some(ParseHop(text)) ELSE None

InitHopParse ==
    /\ mode = "hopparse" /\ st = "Closed" /\ pc = "done" /\ connected = FALSE
    /\ tool_ok = TRUE
    /\ Idle
    /\ arg \in HOP_TEXTS
    /\ res = None

ApplyHopParse ==
    /\ mode = "hopparse" /\ res = None
    /\ res' = Some(StreamHop(arg))
    /\ UNCHANGED <<mode, inbox, sessions, storeVars, shotVars, ctlVars, connected, startVars, pingVars,
                   pathVars, procVars, frames, files, clock, arg>>

SpecHopParse == InitHopParse /\ [][ApplyHopParse]_vars

-----------------------------------------------------------------------------
(* The function specification of parse_iperf3_json (main.py:413-434): the   *)
(* argument is the text of any document whose end.sum and end.sum_received  *)
(* are absent, empty or a summary, or a text that is no JSON; the one       *)
(* action applies the function.                                             *)

\* a dictionary with the one key, or the empty one when the value is absent
Entry(key, v) == IF IsNone(v) THEN EmptyDict ELSE [k \in {key} |-> Val(v)]

\* summaries: each of bits_per_second, packets and lost_packets present or
\* not; jitter_ms present (a UDP summary) or not
IPERF_SUMMARIES ==
    { DictUpdate(Entry("bits_per_second", b), udp) :
        b \in {None, Some(94000000), Some(1200)},
        udp \in {EmptyDict} \cup
                { DictUpdate([jitter_ms_e3 |-> 250],
                             DictUpdate(Entry("packets", n),
                                        Entry("lost_packets", l))) :
                    n \in {None, Some(0), Some(3)},
                    l \in {None, Some(0), Some(1)} } }

IPERF_DOCS ==
    { IperfDoc(sent, received) :
        sent \in {None} \cup {Some(d) : d \in IPERF_SUMMARIES},
        received \in {None} \cup {Some(d) : d \in IPERF_SUMMARIES} }

InitIperfParse ==
    /\ mode = "iperfparse" /\ st = "Closed" /\ pc = "done" /\ connected = FALSE
    /\ tool_ok = TRUE
    /\ Idle
    /\ arg \in {[kind |-> "json", doc |-> d] : d \in IPERF_DOCS}
                \cup {GarbageText}
    /\ res = None

ApplyIperfParse ==
    /\ mode = "iperfparse" /\ res = None
    /\ res' = Some(parse_iperf3_json(arg))
    /\ UNCHANGED <<mode, inbox, sessions, storeVars, shotVars, ctlVars, connected, startVars, pingVars,
                   pathVars, procVars, frames, files, clock, arg>>

SpecIperfParse == InitIperfParse /\ [][ApplyIperfParse]_vars

-----------------------------------------------------------------------------
(* Concurrent sessions: several ws_ping / ws_traceroute coroutines on one   *)
(* event loop, each past its start message, each with its own local         *)
(* variables (main.py:226-230, 151-152); the only object they share is the  *)
(* history store.  Steps of different sessions interleave at the awaits.    *)
(* The clients stay connected; frames are recorded without their wall-clock  *)
(* stamp (now_iso()), which is no state of a session.                       *)

SESSION_IDS == {"a", "b"}

\* output lines a path probe of a concurrent session can produce
SESSION_LINES ==
    { <<"Tracing", "route", "to", "h1">>,
      <<"1", "<1", "ms", "5", "ms", "10.0.0.1">>,
      <<"1x", "5", "ms", "10.0.0.1">> }

\* main.py:226-230 / 151-152: the locals of a coroutine when its loop starts
NewSession(kind) ==
    [kind |-> kind,
     pc |-> IF kind = "latency" THEN "probe_wait" ELSE "read_line",
     window |-> <<>>, idx |-> 0, error_count |-> 0, rtt |-> None,
     hops |-> <<>>, outs |-> <<>>, frames |-> <<>>]

\* main.py:241-248 / 267-274
SessSampleFrame(l) ==
    LET summary == summarize_window(l.window)
    IN  [type |-> "sample", sample_index |-> l.idx, rtt_ms |-> l.rtt,
         jitter_ms_window |-> summary.jitter_ms,
         loss_pct_window |->
            IF IsNone(l.rtt) /\ l.window = <<>> THEN 100 ELSE summary.loss_pct]

\* main.py:252-258
SessPingData(l) ==
    LET summary == summarize_window(l.window)
    IN  [target |-> "h1", rtt_ms |-> Val(l.rtt),
         loss_pct_window |-> summary.loss_pct,
         jitter_ms_window |-> summary.jitter_ms, sample_index |-> l.idx]

\* main.py:280-284
SessErrorFrame(l) ==
    [type |-> "error", error |-> "Ping failed", sample_index |-> l.idx]

InitSessions ==
    /\ mode = "sessions" /\ st = "Sampling" /\ pc = "done" /\ connected = TRUE
    /\ tool_ok = TRUE
    /\ host = None /\ interval_ms = 0 /\ msg = None
    /\ window = <<>> /\ idx = 0 /\ error_count = 0 /\ rtt = None
    /\ hops = <<>> /\ linesRead = 0 /\ frames = <<>>
    /\ files = [t \in TOOLS |-> <<>>]
    /\ proc = "none" /\ launched = 0
    /\ outcomes = <<>> /\ cooldowns = <<>>
    /\ closedBy = "" /\ escaped = FALSE
    /\ clock = 0
    /\ cmd_out = None /\ timed_out = FALSE /\ served = 0
    /\ appended = [t \in TOOLS |-> <<>>]
    /\ inbox = <<>>
    /\ sessions \in { [s \in SESSION_IDS |-> NewSession(k[s])] :
                        k \in [SESSION_IDS -> {"latency", "path"}] }
    /\ arg = <<>> /\ res = None

\* what a step of a session leaves alone
SessionFrame ==
    UNCHANGED <<mode, inbox, storeVars, shotVars, ctlVars, connected,
                startVars, pingVars, pathVars, procVars, frames, clock, fnVars>>

\* SessPingReturn with the window kept in one module-level list that every
\* session appends to
SessPingReturn_SharedWindow(s, out) ==
    LET l == sessions[s]
        o == CHOOSE t \in SESSION_IDS : t # s
        r == parse_ping_rtt_ms(out)
        shared == IF Len(sessions[o].window) > Len(l.window)
                  THEN sessions[o].window ELSE l.window
        w == NextWindow(shared, r)
    IN  /\ mode = "sessions"
        /\ l.kind = "latency" /\ l.pc = "probe_wait"
        /\ Len(l.outs) < MaxSessionProbes
        /\ sessions' = [sessions EXCEPT ![s] =
              [l EXCEPT !.rtt = r, !.window = w,
                        !.error_count = IF IsNone(r) THEN @ + 1 ELSE @,
                        !.outs = Append(@, out),
                        !.pc = IF summarize_window(w).raised
                               THEN "err_exception" ELSE "send_sample"]]
        /\ UNCHANGED files
        /\ SessionFrame

\* main.py:232-239 / 261-264: run_cmd returns to session s
SessPingReturn(s, out) ==
    LET l == sessions[s]
        r == parse_ping_rtt_ms(out)
        w == NextWindow(l.window, r)
    IN  /\ mode = "sessions"
        /\ l.kind = "latency" /\ l.pc = "probe_wait"
        /\ Len(l.outs) < MaxSessionProbes
        /\ sessions' = [sessions EXCEPT ![s] =
              [l EXCEPT !.rtt = r, !.window = w,
                        !.error_count = IF IsNone(r) THEN @ + 1 ELSE @,
                        !.outs = Append(@, out),
                        !.pc = IF summarize_window(w).raised
                               THEN "err_exception" ELSE "send_sample"]]
        /\ UNCHANGED files
        /\ SessionFrame

\* main.py:240-260 / 266-276, 295-296: the sample frame of session s is
\* sent; after a success the record is saved, the counter reset, the index
\* advanced and the session sleeps until its next probe
SessSendSample(s) ==
    LET l == sessions[s]
        sent == [l EXCEPT !.frames = Append(@, SessSampleFrame(l))]
    IN  /\ mode = "sessions" /\ l.pc = "send_sample"
        /\ IF IsNone(l.rtt)
           THEN /\ sessions' = [sessions EXCEPT ![s] =
                                   [sent EXCEPT !.pc = "send_error"]]
                /\ UNCHANGED files
           ELSE /\ sessions' = [sessions EXCEPT ![s] =
                                   [sent EXCEPT !.error_count = 0,
                                                !.idx = @ + 1,
                                                !.pc = "probe_wait"]]
                /\ files' = save_to_csv(files, "ping", SessPingData(l), clock)
        /\ SessionFrame

\* main.py:278-296: the diagnostic frame of a lost probe, the cooldown when
\* the counter has reached the threshold, the next index
SessSendError(s) ==
    LET l == sessions[s]
    IN  /\ mode = "sessions" /\ l.pc = "send_error"
        /\ sessions' = [sessions EXCEPT ![s] =
              [l EXCEPT !.frames = Append(@, SessErrorFrame(l)),
                        !.error_count =
                            IF @ >= ERROR_THRESHOLD THEN 0 ELSE @,
                        !.idx = @ + 1,
                        !.pc = "probe_wait"]]
        /\ UNCHANGED files
        /\ SessionFrame

\* main.py:302-306: `except Exception` of _stream_ping sends one error frame
SessFinalError(s) ==
    LET l == sessions[s]
    IN  /\ mode = "sessions" /\ l.pc = "err_exception"
        /\ sessions' = [sessions EXCEPT ![s] =
              [l EXCEPT !.frames = Append(@, ErrorFrame("exception")),
                        !.pc = "done"]]
        /\ UNCHANGED files
        /\ SessionFrame

\* main.py:162-197: session s reads one line of its subprocess
SessReadLine(s, text) ==
    LET l == sessions[s]
    IN  /\ mode = "sessions"
        /\ l.kind = "path" /\ l.pc = "read_line" /\ Len(l.outs) < MaxLines
        /\ sessions' = [sessions EXCEPT ![s] =
              [l EXCEPT !.outs = Append(@, text),
                        !.frames = Append(@, LineFrame(text)),
                        !.hops = IF IsHopLine(text)
                                 THEN Append(@, ParseHop(text)) ELSE @,
                        !.pc = IF IsHopLine(text)
                               THEN "send_hop" ELSE "read_line"]]
        /\ UNCHANGED files
        /\ SessionFrame

\* main.py:199-203
SessSendHop(s) ==
    LET l == sessions[s]
    IN  /\ mode = "sessions" /\ l.pc = "send_hop"
        /\ sessions' = [sessions EXCEPT ![s] =
              [l EXCEPT !.frames = Append(@, HopFrame(l.hops[Len(l.hops)])),
                        !.pc = "read_line"]]
        /\ UNCHANGED files
        /\ SessionFrame

\* main.py:162-164, 206-216: end of output, the done frame, the record
SessDone(s) ==
    LET l == sessions[s]
    IN  /\ mode = "sessions" /\ l.kind = "path" /\ l.pc = "read_line"
        /\ sessions' = [sessions EXCEPT ![s] =
              [l EXCEPT !.frames = Append(@, [type |-> "done",
                                              hops |-> l.hops]),
                        !.pc = "done"]]
        /\ files' = save_to_csv(files, "traceroute",
                        [target |-> "h1", hops |-> l.hops,
                         timestamp |-> clock], clock)
        /\ SessionFrame

NextSessions ==
    \E s \in SESSION_IDS :
        \/ \E out \in PING_OUTPUTS : SessPingReturn(s, out)
        \/ SessSendSample(s)
        \/ SessSendError(s)
        \/ SessFinalError(s)
        \/ \E text \in SESSION_LINES : SessReadLine(s, text)
        \/ SessSendHop(s)
        \/ SessDone(s)

SpecSessions == InitSessions /\ [][NextSessions]_vars

-----------------------------------------------------------------------------
(* The function specification of the summaries parse_iperf3_json reads      *)
(* (main.py:419-450): the argument is any document whose end section has    *)
(* each of sum, sum_sent and sum_received or not, with at most MaxIntervals *)
(* intervals; the one action applies the function.                          *)

\* the summaries under "end", told apart by their bit rate: iperf3 -J
\* prints sum_sent and sum_received for a TCP test, sum for a UDP test
SENT_BPS == 94000000
RECEIVED_BPS == 93000000
SUM_BPS == 5000000

\* an interval: its own summary present or not, no stream, or a first
\* stream with or without a summary
INTERVAL_DATA ==
    [sum : {None, Some([start |-> 0, end |-> 1, bytes |-> 2097152,
                        bits_per_second |-> 16000000])},
     streams : { <<>>, <<[sum |-> None]>>,
                 <<[sum |-> Some([bytes |-> 1048576,
                                  bits_per_second |-> 8000000])]>> }]

SOURCE_DOCS ==
    { IperfDocOf(su, se, re, ivs) :
        su \in {None, Some(EmptyDict), Some(TcpSummary(SUM_BPS))},
        se \in {None, Some(TcpSummary(SENT_BPS))},
        re \in {None, Some(TcpSummary(RECEIVED_BPS))},
        ivs \in SeqsUpTo(INTERVAL_DATA, MaxIntervals) }

InitIperfSource ==
    /\ mode = "iperfsource" /\ st = "Closed" /\ pc = "done" /\ connected = FALSE
    /\ tool_ok = TRUE
    /\ Idle
    /\ arg \in {[kind |-> "json", doc |-> d] : d \in SOURCE_DOCS}
    /\ res = None

ApplyIperfSource ==
    /\ mode = "iperfsource" /\ res = None
    /\ res' = Some(parse_iperf3_json(arg))
    /\ UNCHANGED <<mode, inbox, sessions, storeVars, shotVars, ctlVars, connected,
                   startVars, pingVars, pathVars, procVars, frames, files,
                   clock, arg>>

SpecIperfSource == InitIperfSource /\ [][ApplyIperfSource]_vars

-----------------------------------------------------------------------------
(* The function specification of the pause between two latency probes       *)
(* (main.py:94, 296): the argument is the interval of the start message, a  *)
(* number of seconds held in microseconds; the one action converts it as    *)
(* ws_ping does and computes the sleep of _stream_ping, in microseconds.    *)

\* requested intervals: every half millisecond from -0.15 s to 0.3 s
REQUESTED_US == { k * 500 : k \in -300..600 }

\* main.py:94  int(float(interval) * 1000): int() drops the fraction,
\* towards zero
IntervalToMs(us) == IF us >= 0 THEN us \div 1000 ELSE -((-us) \div 1000)

\* main.py:296  max(0.1, interval_ms / 1000.0) seconds, in microseconds
PauseUs(ms) == IF ms * 1000 > 100000 THEN ms * 1000 ELSE 100000

InitPause ==
    /\ mode = "pause" /\ st = "Closed" /\ pc = "done" /\ connected = FALSE
    /\ tool_ok = TRUE
    /\ Idle
    /\ arg \in REQUESTED_US
    /\ res = None

ApplyPause ==
    /\ mode = "pause" /\ res = None
    /\ res' = Some(PauseUs(IntervalToMs(arg)))
    /\ UNCHANGED <<mode, inbox, sessions, storeVars, shotVars, ctlVars, connected,
                   startVars, pingVars, pathVars, procVars, frames, files,
                   clock, arg>>

SpecPause == InitPause /\ [][ApplyPause]_vars

-----------------------------------------------------------------------------
(* Properties *)

Last(q) == q[Len(q)]
SampleFrames == SelectSeq(frames, LAMBDA f : f.type = "sample")
ErrorFrames == SelectSeq(frames, LAMBDA f : f.type = "error")
\* the latency session has entered _stream_ping
Streaming == mode = "latency" /\ launched > 0
\* no send has failed and no cancellation was delivered
Undisturbed == connected /\ closedBy # "cancelled"

\* C1: in latency mode, with every send succeeding and no cancellation, a
\* session that entered Sampling is still sampling after any sequence of
\* probe outcomes, and between iterations it has emitted one sample frame
\* per completed probe.  (The statement of the claim; the code violates it.)
C1_SamplingUntilDisconnectOrCancel ==
    (Streaming /\ Undisturbed) =>
        /\ st = "Sampling"
        /\ pc \in {"probe_wait", "send_sample", "send_error", "cooldown", "sleep"}
        /\ (pc = "sleep" => Len(SampleFrames) = Len(outcomes))

\* sum of the squared deviations of n*d[i] from the sum of d
RECURSIVE SumSeq(_)
SumSeq(d) == IF d = <<>> THEN 0 ELSE d[1] + SumSeq(Tail(d))
ScaledSqDev(d) ==
    LET n == Len(d)
        total == SumSeq(d)
    IN  SumSeq([i \in 1..n |-> (n * d[i] - total) * (n * d[i] - total)])
\* j is the sample standard deviation of d:  j^2 = sum (d[i] - mean)^2 / (n-1)
IsStdevOf(j, d) == (Len(d) - 1) * Len(d) * Len(d) * j * j = ScaledSqDev(d)

\* C2: summarize_window returns a result for every window: jitter 0 for an
\* empty or single-element window, the single absolute difference for two
\* elements, the standard deviation of the successive absolute differences
\* for three or more.  (The statement of the claim; the code violates it.)
C2_SummarizeReturnsJitter ==
    (mode = "none" /\ ~IsNone(res)) =>
        LET r == Val(res)
        IN  /\ ~r.raised
            /\ (Len(arg) <= 1 => r.jitter_ms = 0)
            /\ (Len(arg) = 2 => r.jitter_ms = Abs(arg[2] - arg[1]))
            /\ (Len(arg) >= 3 => IsStdevOf(r.jitter_ms, Deltas(arg)))

\* C3: a session that has lost 30 probes in a row and taken the cooldown is
\* still sampling afterwards (the client connected, no cancellation): it
\* launches a further probe and emits a sample frame for that probe.  (The
\* statement of the claim; the code violates it.)
C3_ResumesAfterCooldown ==
    (/\ Streaming /\ Undisturbed /\ cooldowns # <<>>
     /\ Len(outcomes) <= Last(cooldowns) + 2) =>
        /\ st = "Sampling"
        /\ pc \in {"probe_wait", "send_sample", "send_error", "cooldown", "sleep"}
        /\ (pc = "sleep" /\ Len(outcomes) = Last(cooldowns) + 2 =>
                Last(SampleFrames).sample_index = Last(cooldowns) + 1)

\* a step of an iteration whose probe was lost (absent RTT)
LostStep ==
    /\ mode = "latency"
    /\ \/ pc = "probe_wait" /\ pc' # "done" /\ pc' # pc /\ IsNone(rtt')
       \/ pc \in {"send_sample", "send_error", "cooldown"} /\ IsNone(rtt)
\* a step that sends nothing: the session ends, or the client goes away
NoSendStep == frames' = frames /\ (st' = "Closed" \/ (connected /\ ~connected'))

\* C4: for a lost probe the session emits one sample frame with rtt null and
\* then, as the next frame, one error frame with the same sample_index; no
\* step of that iteration appends to the history store.
C4_LostProbeFrames ==
    [][LostStep =>
        /\ files' = files
        /\ (pc = "probe_wait" => frames' = frames /\ pc' = "send_sample")
        /\ (pc = "send_sample" =>
              \/ NoSendStep
              \/ /\ pc' = "send_error" /\ idx' = idx
                 /\ Len(frames') = Len(frames) + 1
                 /\ Last(frames').type = "sample"
                 /\ IsNone(Last(frames').rtt_ms)
                 /\ Last(frames').sample_index = idx)
        /\ (pc = "send_error" =>
              /\ Last(frames).type = "sample"
              /\ IsNone(Last(frames).rtt_ms)
              /\ Last(frames).sample_index = idx
              /\ \/ NoSendStep
                 \/ /\ pc' \in {"cooldown", "sleep"}
                    /\ Len(frames') = Len(frames) + 1
                    /\ Last(frames').type = "error"
                    /\ Last(frames').sample_index = idx)
        /\ (pc = "cooldown" => frames' = frames)
      ]_vars

\* a lost probe after a stored success: both frames are out, the store is as
\* the success left it
C4_Witness ==
    /\ mode = "latency" /\ pc = "sleep" /\ IsNone(rtt) /\ Len(frames) >= 3
    /\ Last(frames).type = "error"
    /\ frames[Len(frames) - 1].type = "sample"
    /\ IsNone(frames[Len(frames) - 1].rtt_ms)
    /\ frames[Len(frames) - 1].sample_index = Last(frames).sample_index
    /\ Len(Rows(files, "ping")) = 1

SuccessFrames ==
    SelectSeq(frames, LAMBDA f : f.type = "sample" /\ ~IsNone(f.rtt_ms))

\* C5: the latency records of the store correspond one-to-one, in order, to
\* the successful sample frames the session sent, each record carrying the
\* session's target and the frame's RTT and sample_index; the frame carries
\* the RTT of its probe, and the window holds that RTT when the frame is sent.
C5_SuccessRecorded ==
    mode = "latency" =>
        LET ok == SuccessFrames
            rows == Rows(files, "ping")
        IN  /\ Len(rows) = Len(ok)
            /\ \A i \in 1..Len(ok) :
                  /\ rows[i].data.target = Val(host)
                  /\ rows[i].data.rtt_ms = Val(ok[i].rtt_ms)
                  /\ rows[i].data.sample_index = ok[i].sample_index
                  /\ ok[i].rtt_ms = outcomes[ok[i].sample_index + 1]
            /\ (pc = "send_sample" /\ ~IsNone(rtt) =>
                  window # <<>> /\ Last(window) = Val(rtt))

\* two successes with a lost probe between them, both recorded
C5_Witness ==
    /\ mode = "latency" /\ pc = "sleep"
    /\ Len(Rows(files, "ping")) = 2
    /\ Len(outcomes) = 3 /\ IsNone(outcomes[2])
    /\ Rows(files, "ping")[2].data.sample_index = 2

\* C6: the i-th sample frame of a latency session carries sample_index i-1
\* and the outcome of the i-th probe: indices start at 0 and go up by one per
\* probe, over successes, losses and cooldowns, in probe order.
C6_SampleIndexSequence ==
    mode = "latency" =>
        LET s == SampleFrames
        IN  /\ Len(s) <= Len(outcomes)
            /\ \A i \in 1..Len(s) :
                  s[i].sample_index = i - 1 /\ s[i].rtt_ms = outcomes[i]

\* the frame of the probe that follows a cooldown has been sent, and a
\* success is among the probes
C6_Witness ==
    /\ mode = "latency" /\ cooldowns # <<>>
    /\ Len(SampleFrames) = Last(cooldowns) + 2
    /\ \E i \in 1..Len(outcomes) : ~IsNone(outcomes[i])

Successes == SelectSeq(outcomes, LAMBDA o : ~IsNone(o))

C8_LostProbeKeepsWindow == [][LostStep => window' = window]_vars

\* a lost probe's iteration has completed with two values in the window
C8_Witness ==
    /\ mode = "latency" /\ pc = "sleep" /\ IsNone(rtt)
    /\ Len(window) = 2 /\ Last(frames).type = "error"

\* C9: the loss_pct_window of every sample frame sent is 100 when the probe
\* was lost and the window is empty at that moment, and 0 in every other case.
C9_LossIndicator ==
    [][(Len(frames') = Len(frames) + 1 /\ Last(frames').type = "sample") =>
          Last(frames').loss_pct_window =
             IF IsNone(Last(frames').rtt_ms) /\ window = <<>> THEN 100 ELSE 0
      ]_vars

\* a lost probe reported with 100, a success, then a lost probe reported with 0
C9_Witness ==
    /\ mode = "latency" /\ Len(frames) >= 6
    /\ frames[2].type = "sample" /\ frames[2].loss_pct_window = 100
    /\ frames[4].type = "sample" /\ ~IsNone(frames[4].rtt_ms)
    /\ frames[4].loss_pct_window = 0
    /\ frames[5].type = "sample" /\ IsNone(frames[5].rtt_ms)
    /\ frames[5].loss_pct_window = 0

\* C10: after a start message that is not valid JSON or names no host, the
\* session (latency or path) never samples: no probe subprocess is launched,
\* nothing is appended to the history store, and it closes having sent
\* exactly one error frame (none when the client is already gone).
C10_MalformedStartCloses ==
    (~IsNone(msg) /\ Malformed(Val(msg))) =>
        /\ st \in {"AwaitingStart", "Closed"}
        /\ pc \in {"err_invalid_json", "err_host_required", "err_exception", "done"}
        /\ launched = 0 /\ proc = "none"
        /\ \A t \in TOOLS : files[t] = <<>>
        /\ (st = "Closed" => Len(ErrorFrames) = IF connected THEN 1 ELSE 0)
        /\ (st = "AwaitingStart" => Len(ErrorFrames) = 0)

\* a path session closed by a start message without host
C10_Witness ==
    /\ mode = "path" /\ st = "Closed" /\ connected
    /\ ~IsNone(msg) /\ Val(msg).json /\ Val(msg).obj /\ IsNone(Val(msg).host)
    /\ frames = <<InfoFrame, ErrorFrame("Host is required")>>

\* a step that attempts a frame send of the sampling loop after the client
\* has gone: the sends of main.py:249, 275, 284 (latency) and 168, 200, 210
\* (path); the line frame is sent in the step that reads the line
FailedSend ==
    /\ st = "Sampling" /\ ~connected
    /\ closedBy' # "cancelled"
    /\ \/ pc \in {"send_sample", "send_error", "send_hop", "send_done"}
       \/ linesRead' # linesRead

\* C11: a frame send that fails during Sampling, in a latency or a path
\* session and whatever the frame, ends the loop: the session is Closed by
\* that step, nothing is raised to the caller, no further line of probe
\* output is read and no probe is launched.
C11_SendFailureEndsLoop ==
    [][FailedSend => /\ st' = "Closed" /\ ~escaped'
                     /\ launched' = launched]_vars

\* C12: no session is Closed while a probe subprocess it launched is still
\* running.
C12_ClosedMeansNoSubprocess == st = "Closed" => proc = "none"

\* C13: once a latency session is cancelled it is Closed by that very step,
\* whichever suspension point it was at, and from then on launches no probe,
\* sends no frame, writes nothing and raises nothing.
C13_CancelledPingStops ==
    [][(mode = "latency" /\ closedBy' = "cancelled") =>
            /\ st' = "Closed" /\ ~escaped'
            /\ launched' = launched
            /\ frames' = frames
            /\ files' = files]_vars

\* cancelled while the second probe was awaited, after one frame was sent
C13_Witness ==
    /\ mode = "latency" /\ closedBy = "cancelled" /\ st = "Closed"
    /\ launched = 2 /\ Len(outcomes) = 1 /\ Len(SampleFrames) = 1

\* C14: in a path session whose client is connected, every line read has
\* been echoed as one line frame, and every hop line (it starts with a digit
\* and its first token is an integer) is followed at once by the hop frame
\* parsed from it: the only hop line without its hop frame is the last frame,
\* with the send pending (or cancelled) and the subprocess still running.
C14_LineThenHop ==
    (mode = "path" /\ connected) =>
        LET n == Len(frames)
        IN  /\ Cardinality({i \in 1..n : frames[i].type = "line"}) = linesRead
            /\ \A i \in 1..n :
                  (frames[i].type = "line" /\ IsHopLine(frames[i].text)) =>
                      IF i < n
                      THEN frames[i + 1] = HopFrame(ParseHop(frames[i].text))
                      ELSE pc = "send_hop" \/ closedBy = "cancelled"
            /\ \A i \in 1..n :
                  frames[i].type = "hop" =>
                      /\ i > 1 /\ frames[i - 1].type = "line"
                      /\ IsHopLine(frames[i - 1].text)
            /\ (pc = "send_hop" => proc = "running" /\ st = "Sampling")

\* two hop lines and a plain line read, each hop frame right after its line
C14_Witness ==
    /\ mode = "path" /\ connected /\ st = "Sampling" /\ Len(frames) = 6
    /\ frames[2].type = "line" /\ frames[3].type = "hop"
    /\ frames[4].type = "line" /\ ~IsHopLine(frames[4].text)
    /\ frames[5].type = "line" /\ frames[6].type = "hop"

HopFrames == SelectSeq(frames, LAMBDA f : f.type = "hop")
DoneFrames == SelectSeq(frames, LAMBDA f : f.type = "done")
\* the hops of the hop frames sent, in the order sent
HopsSent == [i \in 1..Len(HopFrames) |-> HopFrames[i].hop]

\* C15: a path session that reached the end of its subprocess's output has
\* waited for the subprocess and appended exactly one path record, holding
\* the target and the hops of the hop frames sent, in that order; a client
\* still connected got exactly one done frame, as the last frame, with the
\* same hop list.  A path session that ended any other way has sent no done
\* frame and written no record.
C15_DoneFrameAndRecord ==
    mode = "path" =>
        LET rows == Rows(files, "traceroute")
        IN  /\ closedBy = "done" =>
                /\ proc = "none"
                /\ Len(rows) = 1
                /\ rows[1].data.target = Val(host)
                /\ rows[1].data.hops = HopsSent
                /\ connected =>
                      /\ Len(DoneFrames) = 1
                      /\ Last(frames).type = "done"
                      /\ Last(frames).hops = HopsSent
            /\ closedBy # "done" => (DoneFrames = <<>> /\ rows = <<>>)

\* a session that sent two hop frames and then the done frame
C15_Witness ==
    /\ mode = "path" /\ closedBy = "done" /\ connected
    /\ Len(HopFrames) = 2 /\ Len(frames) = 6
    /\ Last(frames).hops = HopsSent
    /\ Len(Rows(files, "traceroute")) = 1

StrictlyIncreasing(q) ==
    \A i \in 1..Len(q) : \A j \in 1..Len(q) : i < j => q[i].hop < q[j].hop

\* C16: within a path session the hop frames carry strictly increasing
\* hop numbers, and the hop list of the done frame is ordered by hop number,
\* whatever lines the tool prints.
C16_HopNumbersIncrease ==
    mode = "path" =>
        /\ StrictlyIncreasing(HopsSent)
        /\ \A i \in 1..Len(DoneFrames) : StrictlyIncreasing(DoneFrames[i].hops)

\* every text a probe tool itself can print
ToolOutputs == UNION { ToolTexts(r) : r \in ONE_SHOT_REQUESTS }

\* C17: once a one-shot probe has exceeded its timeout, its subprocess has
\* been terminated and what run_cmd hands its caller is a timeout failure,
\* not something the tool could have printed.
C17_TimeoutTerminates ==
    (mode = "oneshot" /\ timed_out) =>
        /\ proc = "none"
        /\ Val(cmd_out) \notin ToolOutputs

\* the command name of a one-shot request
ToolName(r) == IF r.endpoint = "traceroute" THEN "tracert" ELSE "iperf3"

\* C18: with the tool not installed, a one-shot path or throughput request
\* is answered with the tool-not-found error of its endpoint; it is never a
\* success, nothing is appended to the history store, and no subprocess is
\* launched for it.
C18_ToolNotFoundError ==
    (mode = "oneshot" /\ ~tool_ok /\ ~IsNone(res)) =>
        /\ Val(res).status = 500
        /\ Val(res).detail = <<ToolName(arg), "command not found in PATH">>
        /\ \A t \in TOOLS : files[t] = <<>>
        /\ launched = 0

\* C19: a latency session whose probe tool is not installed ends when the
\* first launch fails: it does not go on to a second probe.
C19_AbsentToolEndsSession ==
    (mode = "latency" /\ ~tool_ok) => Len(outcomes) <= 1

\* C20: a one-shot path request for a host that cannot be resolved is
\* answered 400 'Unable to resolve hostname'; no path probe was launched for
\* it (every earlier request launched one) and the store holds no record
\* for that host.
C20_UnresolvableHost ==
    (/\ mode = "oneshot" /\ tool_ok /\ ~IsNone(res)
     /\ arg.endpoint = "traceroute" /\ arg.host \in UNRESOLVABLE) =>
        /\ Val(res).status = 400
        /\ Val(res).detail = <<"Unable to resolve hostname">>
        /\ launched = served - 1
        /\ \A i \in 1..Len(Rows(files, "traceroute")) :
              Rows(files, "traceroute")[i].data.target \notin UNRESOLVABLE

\* C21: when iperf3 printed text that is no JSON, the throughput request
\* is answered with an error (not a result) that differs from the answer to
\* empty output and carries the raw text, and nothing is appended to the
\* history store.
C21_ParseFailureCarriesRaw ==
    [][(/\ mode = "oneshot" /\ pc = "respond"
        /\ arg.endpoint = "iperf" /\ Val(cmd_out) = GarbageText) =>
            /\ Val(res').status # 200
            /\ Val(res') # iperf_endpoint(arg, EmptyText, clock).resp
            /\ Val(res').raw = Some(GarbageText)
            /\ files' = files]_vars

\* a query has been answered without raising
Answered == mode = "store" /\ ~IsNone(res) /\ ~Val(res).raised
\* the record carries the target, as target or as server
BelongsTo(rec, target) ==
    Get(rec, "target", "") = target \/ Get(rec, "server", "") = target
\* number of records appended to a store for a target
AppendedFor(tool, target) ==
    Len(SelectSeq(appended[tool], LAMBDA a : BelongsTo(a.data, target)))

\* C22 as stated: with N records appended for the queried target, any
\* limit < N gives exactly limit records, and whatever target the caller
\* passes, every returned record carries it as its target or server.
C22_LimitAndTarget ==
    Answered =>
        LET q == Val(arg)
            rs == Val(res).results
        IN  /\ (q.limit < AppendedFor(q.tool, q.target) => Len(rs) = q.limit)
            /\ \A i \in 1..Len(rs) : BelongsTo(rs[i], q.target)

\* C22 amended: the same for a limit with 0 <= limit < N and for a
\* non-empty target.
C22_LimitAndTargetAmended ==
    Answered =>
        LET q == Val(arg)
            rs == Val(res).results
        IN  /\ (q.limit >= 0 /\ q.limit < AppendedFor(q.tool, q.target)
                    => Len(rs) = q.limit)
            /\ (q.target # "" => \A i \in 1..Len(rs) : BelongsTo(rs[i], q.target))

\* two ping records for h1 and one for h2 appended, h1 queried with limit 1
C22_Witness ==
    /\ Answered
    /\ Val(arg) = [tool |-> "ping", target |-> "h1", limit |-> 1]
    /\ AppendedFor("ping", "h1") = 2 /\ AppendedFor("ping", "h2") = 1
    /\ Len(Val(res).results) = 1

\* the rows behind the answer of the query, in the order returned
Returned == LoadRows(files, Val(arg).tool, Val(arg).target, Val(arg).limit)

\* C23: the records of an answer are in reverse order of append (a row
\* appended later stands further down the file), and a limit (not negative)
\* keeps the matching rows appended last.
C23_MostRecentFirst ==
    (Answered /\ Val(arg).limit >= 0) =>
        LET kept == KeptRows(files, Val(arg).tool, Val(arg).target)
            n == Len(Returned)
        IN  /\ \A i \in 1..n : \A j \in 1..n :
                  i < j => Returned[i].row > Returned[j].row
            /\ { Returned[i].row : i \in 1..n } =
                    { kept[k] : k \in (Len(kept) - n + 1)..Len(kept) }

\* C24: a query does not fail on a store with malformed entries (a data
\* column that is not JSON, or no data column): it returns the well-formed
\* matching records, as many as the limit allows.
C24_MalformedSkipped ==
    (mode = "store" /\ ~IsNone(res)) =>
        LET q == Val(arg)
            wellFormed == SelectSeq(appended[q.tool],
                                    LAMBDA a : Matches(a.data, q.target))
        IN  /\ ~Val(res).raised
            /\ q.limit >= Len(wellFormed) =>
                  Len(Val(res).results) = Len(wellFormed)
            /\ (q.limit >= 0 /\ q.limit < Len(wellFormed)) =>
                  Len(Val(res).results) = q.limit

\* C25: over one store, the id surfaced with a record identifies its row:
\* in the answer to the query and in the answer to any other query on the
\* same probe kind (any target filter, any limit), two records have the
\* same id exactly when they are the same stored row.
C25_StableUniqueIds ==
    Answered =>
        \A q \in QUERIES :
            q.tool = Val(arg).tool =>
                LET other == LoadRows(files, q.tool, q.target, q.limit)
                IN  \A i \in 1..Len(Returned) : \A j \in 1..Len(other) :
                        (Returned[i].row = other[j].row)
                            <=> (Returned[i].rec.id = other[j].rec.id)

\* the last n lines of a file
LastLines(f, n) == SubSeq(f, Len(f) - n + 1, Len(f))

\* the header lines of a file
HeaderLines(f) == SelectSeq(f, LAMBDA l : "header" \in DOMAIN l)

\* C26: whatever the order in which sessions and requests call save_to_csv,
\* each store file holds one intact record per completed append, in append
\* order at its end, and a non-empty file has exactly one header line,
\* which is its first line.
C26_NoAppendLost ==
    mode = "store" =>
        \A t \in TOOLS :
            /\ Len(files[t]) >= Len(appended[t])
            /\ LastLines(files[t], Len(appended[t])) = appended[t]
            /\ files[t] # <<>> =>
                  /\ "header" \in DOMAIN files[t][1]
                  /\ Len(HeaderLines(files[t])) = 1
            /\ appended[t] # <<>> => Len(files[t]) > Len(appended[t])

\* appends of several callers interleaved over two stores
C26_Witness ==
    /\ mode = "store"
    /\ Len(appended["ping"]) = 2
    /\ Len(appended["iperf"]) = 1
    /\ appended["ping"][1].data.target # appended["ping"][2].data.target

\* the text has a field written exactly key, n, ms
ContainsReading(text, key, n) ==
    \E i \in 1..Len(text) :
        text[i] = [key |-> key, num |-> Some(n), unit |-> "ms"]

\* the first field of the text that is a time reading in ms is field i
FirstReading(text, i) ==
    /\ i \in 1..Len(text)
    /\ PING_RTT(text[i])
    /\ \A j \in 1..(i - 1) : ~PING_RTT(text[j])

\* C27 as stated: the result is the number of the first time reading in
\* ms, 37 for ANY text containing time=37ms and 1 for any text containing
\* time<1ms, and absent for a text with no time= or time< field.
C27_FirstRtt ==
    (mode = "pingparse" /\ ~IsNone(res)) =>
        LET r == Val(res)
        IN  /\ \A i \in 1..Len(arg) : FirstReading(arg, i) => r = arg[i].num
            /\ ContainsReading(arg, "time=", 37) => r = Some(37)
            /\ ContainsReading(arg, "time<", 1) => r = Some(1)
            /\ (\A i \in 1..Len(arg) : arg[i].key \notin TIME_KEYS) => r = None

\* C27 amended: the result is the number of the first time reading in ms
\* (absent when there is none), so 37 for a text whose first reading is
\* time=37ms and 1 for one whose first reading is time<1ms; it is absent
\* for a text with no time= or time< field.
C27_FirstRttAmended ==
    (mode = "pingparse" /\ ~IsNone(res)) =>
        LET r == Val(res)
        IN  /\ ~IsNone(r) => \E i \in 1..Len(arg) :
                                FirstReading(arg, i) /\ r = arg[i].num
            /\ IsNone(r) => \A i \in 1..Len(arg) : ~PING_RTT(arg[i])
            /\ \A i \in 1..Len(arg) :
                  (FirstReading(arg, i) /\ ContainsReading(<<arg[i]>>, "time=", 37))
                      => r = Some(37)
            /\ \A i \in 1..Len(arg) :
                  (FirstReading(arg, i) /\ ContainsReading(<<arg[i]>>, "time<", 1))
                      => r = Some(1)
            /\ (\A i \in 1..Len(arg) : arg[i].key \notin TIME_KEYS) => r = None

\* a text with two readings has been parsed: time=37ms, then time<1ms
C27_Witness ==
    /\ mode = "pingparse"
    /\ Len(arg) = 2
    /\ ContainsReading(<<arg[1]>>, "time=", 37)
    /\ ContainsReading(<<arg[2]>>, "time<", 1)
    /\ res = Some(Some(37))

\* the line '3  12 ms  15 ms  <1 ms  10.0.0.1'
ExampleHopLine == <<"3", "12", "ms", "15", "ms", "<1", "ms", "10.0.0.1">>

\* C28: for a line that starts with a digit and whose first token is an
\* integer, the hop has that integer as hop number, the least of the
\* line's '<?digits ms' readings as RTT (absent when the line has none),
\* and the line's last dotted-quad token as address ('*' when it has
\* none); the example line gives hop 3, 10.0.0.1, RTT 1.
C28_HopOfLine ==
    (mode = "hopparse" /\ ~IsNone(res) /\ Qualifies(arg)
        /\ arg[1] \in DOMAIN DIGIT_TOKENS) =>
        /\ ~IsNone(Val(res))
        /\ LET h == Val(Val(res))
               rs == RttReadings(arg)
               ips == { i \in 1..Len(arg) : arg[i] \in IP_TOKENS }
           IN  /\ h.hop = DIGIT_TOKENS[arg[1]]
               /\ rs = {} => IsNone(h.rtt_ms)
               /\ rs # {} => /\ ~IsNone(h.rtt_ms)
                             /\ Val(h.rtt_ms) \in rs
                             /\ \A x \in rs : Val(h.rtt_ms) <= x
               /\ ips = {} => h.ip = "*"
               /\ \A i \in ips : (\A j \in ips : j <= i) => h.ip = arg[i]
               /\ arg = ExampleHopLine =>
                     h = [hop |-> 3, ip |-> "10.0.0.1", rtt_ms |-> Some(1)]

\* the example line has been parsed
C28_Witness ==
    /\ mode = "hopparse"
    /\ arg = ExampleHopLine
    /\ res = Some(Some([hop |-> 3, ip |-> "10.0.0.1", rtt_ms |-> Some(1)]))

\* C29: in a path session with its client connected, reading a line that
\* does not start with a digit, or whose first token is no integer, adds
\* the line frame and nothing else to the frames sent, leaves the hop list
\* as it was, and leaves the session sampling at its read loop with its
\* subprocess running.
C29_NonHopLineOnlyEchoed ==
    [][ (mode = "path" /\ connected /\ linesRead' = linesRead + 1) =>
            LET f == frames'[Len(frames')]
            IN  (f.type = "line" /\ ~IsHopLine(f.text)) =>
                    /\ frames' = Append(frames, f)
                    /\ hops' = hops
                    /\ pc' = "read_line"
                    /\ st = "Sampling" /\ st' = st
                    /\ closedBy' = closedBy
                    /\ proc' = proc /\ proc = "running"
      ]_vars

\* a digit-led line whose first token is no integer has been read after a
\* hop line, and the session goes on reading
C29_Witness ==
    /\ mode = "path" /\ connected /\ st = "Sampling" /\ pc = "read_line"
    /\ Len(frames) >= 3
    /\ frames[Len(frames)].type = "line"
    /\ Qualifies(frames[Len(frames)].text)
    /\ ~IsHopLine(frames[Len(frames)].text)
    /\ Len(hops) = 1 /\ Len(HopFrames) = 1 /\ ErrorFrames = <<>>

\* a document has been parsed into a result
IperfParsed ==
    mode = "iperfparse" /\ ~IsNone(res) /\ arg.kind = "json"

\* the summary the result is computed from, and the keys of the result
\* other than the bandwidth
ParsedSummary == SumData(arg.doc)
UdpKeys == DOMAIN Val(res).result \ {"bandwidth_mbps_e3"}

\* C30 as stated: bandwidth_mbps is exactly bits_per_second / 1,000,000;
\* jitter_ms and loss_pct are in the result together, and exactly when the
\* summary has a jitter field; loss_pct is exactly 100 * lost / total, or 0
\* when total is 0.
C30_ExactFigures ==
    IperfParsed =>
        LET sd == ParsedSummary
            r == Val(res).result
        IN  /\ ~Val(res).raised
            /\ r.bandwidth_mbps_e3 * 1000 = Get(sd, "bits_per_second", 0)
            /\ UdpKeys = IF "jitter_ms_e3" \in DOMAIN sd
                         THEN {"jitter_ms_e3", "loss_pct_e3"} ELSE {}
            /\ "loss_pct_e3" \in DOMAIN r =>
                  IF Get(sd, "packets", 0) = 0 THEN r.loss_pct_e3 = 0
                  ELSE r.loss_pct_e3 * Get(sd, "packets", 0)
                          = 100000 * Get(sd, "lost_packets", 0)

\* C30 amended: bandwidth_mbps is bits_per_second / 1,000,000 rounded to 3
\* decimals (94.0 for 94,000,000); jitter_ms and loss_pct are in the result
\* together, and exactly when the summary has a jitter field; loss_pct is
\* 100 * lost / total rounded to 3 decimals, or 0 when total is 0 or absent.
C30_RoundedFigures ==
    IperfParsed =>
        LET sd == ParsedSummary
            r == Val(res).result
            bps == Get(sd, "bits_per_second", 0)
            packets == Get(sd, "packets", 0)
            lost == Get(sd, "lost_packets", 0)
        IN  /\ ~Val(res).raised
            /\ 2 * Abs(r.bandwidth_mbps_e3 * 1000 - bps) <= 1000
            /\ bps = 94000000 => r.bandwidth_mbps_e3 = 94000
            /\ UdpKeys = IF "jitter_ms_e3" \in DOMAIN sd
                         THEN {"jitter_ms_e3", "loss_pct_e3"} ELSE {}
            /\ "jitter_ms_e3" \in DOMAIN r => r.jitter_ms_e3 = sd.jitter_ms_e3
            /\ "loss_pct_e3" \in DOMAIN r =>
                  IF packets = 0 THEN r.loss_pct_e3 = 0
                  ELSE 2 * Abs(r.loss_pct_e3 * packets - 100000 * lost)
                          <= packets

\* a UDP summary at 94,000,000 bit/s with 1 packet of 3 lost has been
\* parsed: 94.0 Mbps, the jitter, 33.333 %
C30_Witness ==
    /\ IperfParsed
    /\ arg.doc.sum = Some(UdpSummary(94000000, 250, 3, 1))
    /\ Val(res).result = [bandwidth_mbps_e3 |-> 94000, jitter_ms_e3 |-> 250,
                          loss_pct_e3 |-> 33333]

\* the number of probes lost in a row at the end of a probe history
LossRun(o) ==
    LET ok == { j \in 1..Len(o) : ~IsNone(o[j]) }
    IN  IF ok = {} THEN Len(o)
        ELSE Len(o) - (CHOOSE m \in ok : \A x \in ok : m >= x)

\* C31: an iteration of a latency session ends with the cooldown exactly
\* when its probe was lost and is the 30th lost in a row since the last
\* success or the last cooldown; the failure counter is 0 after a success
\* and after a cooldown, and is between 0 and 29 whenever a probe is
\* launched or in flight.
C31_CooldownExactlyAt30 ==
    [][ mode = "latency" =>
          /\ idx' = idx + 1 =>
                /\ (cooldowns' # cooldowns) <=>
                      (LossRun(outcomes) > 0
                          /\ LossRun(outcomes) % ERROR_THRESHOLD = 0)
                /\ (cooldowns' # cooldowns) => error_count' = 0
                /\ ~IsNone(outcomes[Len(outcomes)]) => error_count' = 0
                /\ error_count' = LossRun(outcomes) % ERROR_THRESHOLD
          /\ pc' = "probe_wait" =>
                error_count' \in 0..(ERROR_THRESHOLD - 1)
      ]_vars

\* a cooldown has been taken after one success and 30 losses, and the next
\* probe is in flight with the counter at 0
C31_Witness ==
    /\ mode = "latency" /\ pc = "probe_wait"
    /\ cooldowns = <<30>> /\ error_count = 0
    /\ ~IsNone(outcomes[1]) /\ Len(outcomes) = 31

\* One whole iteration of _stream_ping (main.py:231-296) on the locals l
\* of a session that runs alone, for the probe output out
LatencyIter(l, out) ==
    LET r == parse_ping_rtt_ms(out)
        a == [l EXCEPT !.rtt = r, !.window = NextWindow(@, r),
                       !.error_count = IF IsNone(r) THEN @ + 1 ELSE @,
                       !.outs = Append(@, out)]
    IN  IF summarize_window(a.window).raised
        THEN [a EXCEPT !.frames = Append(@, ErrorFrame("exception")),
                       !.pc = "done"]
        ELSE IF ~IsNone(r)
        THEN [a EXCEPT !.frames = Append(@, SessSampleFrame(a)),
                       !.error_count = 0, !.idx = @ + 1]
        ELSE [a EXCEPT !.frames = @ \o <<SessSampleFrame(a), SessErrorFrame(a)>>,
                       !.error_count = IF @ >= ERROR_THRESHOLD THEN 0 ELSE @,
                       !.idx = @ + 1]

\* One whole iteration of the read loop of _stream_traceroute
\* (main.py:162-203) on the locals l of a session that runs alone
PathIter(l, text) ==
    LET a == [l EXCEPT !.outs = Append(@, text),
                       !.frames = Append(@, LineFrame(text))]
    IN  IF IsHopLine(text)
        THEN [a EXCEPT !.hops = Append(@, ParseHop(text)),
                       !.frames = Append(@, HopFrame(ParseHop(text)))]
        ELSE a

\* the locals and frames of a session of this kind that ran alone on the
\* probe outputs outs
RECURSIVE RunAlone(_, _)
RunAlone(kind, outs) ==
    IF outs = <<>> THEN NewSession(kind)
    ELSE LET before == RunAlone(kind, SubSeq(outs, 1, Len(outs) - 1))
             out == outs[Len(outs)]
         IN  IF kind = "latency" THEN LatencyIter(before, out)
             ELSE PathIter(before, out)

IsPrefix(p, q) == Len(p) <= Len(q) /\ p = SubSeq(q, 1, Len(p))

\* the locals and frames l of a session are those of a session that ran
\* alone on the same probe outputs
AsAlone(l) ==
    LET alone == RunAlone(l.kind, l.outs)
    IN  /\ l.window = alone.window
        /\ l.hops = alone.hops
        /\ IsPrefix(l.frames, alone.frames) \/ l.pc = "done"
        /\ l.pc \in {"probe_wait", "read_line"} => l = alone
        /\ (l.pc = "done" /\ l.kind = "latency") => l = alone
        /\ (l.pc = "done" /\ l.kind = "path") =>
              l = [alone EXCEPT !.pc = "done",
                                !.frames = Append(@, [type |-> "done",
                                                      hops |-> alone.hops])]

\* C32: with several sessions running at once, a step changes the locals
\* (window, failure counter, sample index, hop list) and the frames of one
\* session only, and every session's locals and frames (apart from their
\* wall-clock stamps) are those of a session that ran alone on the same
\* probe outputs.
C32_SessionsDoNotInterfere ==
    [][ mode = "sessions" =>
          /\ \A s, t \in SESSION_IDS :
                (s # t /\ sessions'[s] # sessions[s]) =>
                    sessions'[t] = sessions[t]
          /\ \A s \in SESSION_IDS : AsAlone(sessions'[s])
      ]_vars

\* two latency sessions interleaved: b's first record, then a's, then b's
\* second, each window holding the session's own values only
C32_Witness ==
    /\ mode = "sessions"
    /\ sessions["a"].window = <<10>> /\ sessions["b"].window = <<20, 10>>
    /\ sessions["a"].pc = "probe_wait" /\ sessions["b"].pc = "probe_wait"
    /\ Len(files["ping"]) = 4
    /\ files["ping"][2].data.rtt_ms = 20
    /\ files["ping"][3].data.sample_index = 0
    /\ files["ping"][3].data.rtt_ms = 10
    /\ files["ping"][4].data.sample_index = 1

\* C33: while a session streams, the messages its client sends are never
\* taken or acted on: a step in which one arrives changes nothing else of
\* the session, what has arrived stays unread, and no step of a session in
\* Sampling changes the target, the interval or the start message on
\* record; the only way out of Sampling is the session's end.
C33_OneMessageRead ==
    [][ (mode = "latency" \/ mode = "path") =>
          /\ IsPrefix(inbox, inbox')
          /\ (inbox' # inbox) =>
                UNCHANGED <<ctlVars, startVars, pingVars, pathVars, procVars,
                            frames, files>>
          /\ (st = "Sampling") =>
                (UNCHANGED startVars /\ st' \in {"Sampling", "Closed"})
          /\ (st' = "Sampling") => (host' = Val(msg')["host"])
      ]_vars

\* two messages arrived during Sampling, the second naming another host;
\* the session went on probing the host of its start message
C33_Witness ==
    /\ mode = "latency" /\ st = "Sampling" /\ pc = "send_sample"
    /\ Len(inbox) = 2 /\ inbox[2].json /\ inbox[2].host = Some("h2")
    /\ host = Some("h1") /\ Len(outcomes) = 2 /\ interval_ms = 0

\* the sender's summary of a document: end.sum_sent, the key iperf3 gives
\* it (and parse_iperf reads), else end.sum
SentSide(doc) == IF ~IsNone(doc.sum_sent) THEN doc.sum_sent ELSE doc.sum

\* C34: the bandwidth is that of the sent-side summary when the document
\* has one, and that of the received-side summary only when it has none;
\* the figures of every interval are those of the interval's own summary
\* when it has one, else those of its first stream's summary.
C34_SummarySource ==
    (mode = "iperfsource" /\ ~IsNone(res)) =>
        LET doc == arg.doc
            r == Val(res).result
        IN  /\ ~IsNone(SentSide(doc)) =>
                  r.bandwidth_mbps_e3 = BandwidthE3(Val(SentSide(doc)))
            /\ (IsNone(SentSide(doc)) /\ ~IsNone(doc.sum_received)) =>
                  r.bandwidth_mbps_e3 = BandwidthE3(Val(doc.sum_received))
            /\ \A i \in 1..Len(doc.intervals) :
                  LET iv == doc.intervals[i]
                      src == IF ~IsNone(iv.sum) THEN Val(iv.sum)
                             ELSE IF iv.streams # <<>>
                                     /\ ~IsNone(iv.streams[1].sum)
                             THEN Val(iv.streams[1].sum)
                             ELSE EmptyDict
                  IN  r.intervals[i].bitrate_e2
                          = RoundDiv(Get(src, "bits_per_second", 0), 10000)

\* C35: for every requested interval, zero and negative ones included, the
\* pause between two probes is the larger of 0.1 s and the requested
\* interval, and so never less than 0.1 s.
C35_PauseIsMax ==
    (mode = "pause" /\ ~IsNone(res)) =>
        /\ Val(res) = IF arg > 100000 THEN arg ELSE 100000
        /\ Val(res) >= 100000

\* C36: for every output line, parse_tracert applied to the line and the
\* streaming hop parser agree: both yield no hop, or both yield the same
\* hop (number, address, RTT).
C36_SameParser ==
    (mode = "hopparse" /\ ~IsNone(res)) =>
        parse_tracert([kind |-> "lines", lines |-> <<arg>>])
            = IF IsNone(Val(res)) THEN <<>> ELSE <<Val(Val(res))>>

\* C37: the timestamp surfaced with every record of an answer is the write
\* timestamp the store gave its row at append (the timestamp column of the
\* row), whatever the payload, a payload with a timestamp key of its own
\* included.
C37_WriteTimestampSurfaced ==
    Answered =>
        \A i \in 1..Len(Returned) :
            Returned[i].rec.timestamp =
                DataLines(files, Val(arg).tool)[Returned[i].row].timestamp

\* C38: a path session appends a path record exactly when it read the
\* output of its subprocess to the end with every hop frame sent: a failed
\* hop-frame send ends the session with nothing persisted, a failed
\* done-frame send still persists the record, the record is written by the
\* step after the end of output only, and a session never appends more than
\* one record.
C38_RecordIffOutputRead ==
    mode = "path" =>
        LET rows == Rows(files, "traceroute")
        IN  /\ Len(rows) <= 1
            /\ (rows # <<>>) <=> (closedBy = "done")
            /\ closedBy = "done" =>
                  /\ HopsSent = hops
                  /\ rows[1].data.hops = hops
            /\ closedBy = "send_failed" =>
                  /\ rows = <<>>
                  /\ Len(hops) = Len(HopFrames) + 1
            /\ pc \in {"read_line", "send_hop", "send_done"} => rows = <<>>

\* a session whose client left after the second hop frame: the done frame
\* was not sent and the record is in the store
C38_Witness ==
    /\ mode = "path" /\ closedBy = "done" /\ ~connected
    /\ Len(HopFrames) = 2 /\ DoneFrames = <<>>
    /\ Len(Rows(files, "traceroute")) = 1
    /\ Rows(files, "traceroute")[1].data.hops = HopsSent

\* the one-shot request has been answered
Responded == mode = "oneshot" /\ ~IsNone(res)

\* C39: a failure an endpoint raises with status 400 because of the request
\* (tracert could not resolve the host, iperf3 could not connect) reaches
\* the caller with status 400 and the detail it was raised with, at
\* traceroute_endpoint and iperf_endpoint as at node_action_endpoint.
C39_RequestFailureKeeps400 ==
    (Responded /\ ~IsNone(cmd_out)) =>
        /\ (RequestTool(arg) = "traceroute" /\ HasUnresolved(Val(cmd_out))) =>
              /\ Val(res).status = 400
              /\ Val(res).detail = <<"Unable to resolve hostname">>
        /\ (RequestTool(arg) = "iperf" /\ HasConnectFailed(Val(cmd_out))) =>
              /\ Val(res).status = 400
              /\ Val(res).detail = <<"Failed to connect to iperf3 server">>

\* C40: a one-shot request to iperf_endpoint or node_action_endpoint that
\* ends in an error appends nothing: the step that answers it with an error
\* leaves every store as it was, no other step of a request writes, and a
\* step that writes appends one record to the store of the request's tool
\* and answers 200.
C40_FailedRequestAppendsNothing ==
    [][ (mode = "oneshot" /\ (arg.endpoint = "iperf" \/ arg.endpoint = "node_action")) =>
          /\ (IsNone(res) /\ ~IsNone(res') /\ Val(res').status # 200) =>
                files' = files
          /\ (files' # files) =>
                /\ IsNone(res) /\ ~IsNone(res') /\ Val(res').status = 200
                /\ Len(Rows(files', RequestTool(arg)))
                      = Len(Rows(files, RequestTool(arg))) + 1
                /\ \A t \in TOOLS \ {RequestTool(arg)} : files'[t] = files[t]
      ]_vars

\* a ping node action answered 408 after one that was answered 200 and
\* recorded: the ping store still holds the one record
C40_Witness ==
    /\ Responded /\ served = 2
    /\ arg = [endpoint |-> "node_action", node_id |-> "h1", action |-> "ping"]
    /\ Val(res).status = 408
    /\ Len(Rows(files, "ping")) = 1
    /\ Rows(files, "ping")[1].data.action = "ping"
    /\ files["traceroute"] = <<>> /\ files["iperf"] = <<>>

=============================================================================
